---- MODULE Spec2Model ----
(***************************************************************************)
(* Static call-structure recovery for a tree of MATLAB scripts:            *)
(*   script_parser.py            ImprovedMATLABScriptParser (scan/resolve) *)
(*   call_chain_builder.py       CallChainBuilder                          *)
(*   recursive_call_analyzer.py  RecursiveCallAnalyzer (path engine)       *)
(*   mcp_recursive_analyzer_server.py  query facade                        *)
(*                                                                         *)
(* A script file is abstracted to what the lexical scanner extracts from   *)
(* it: the names it declares with `function`, the names it calls, and      *)
(* whether its content is blank.                                           *)
(***************************************************************************)
EXTENDS Integers, Sequences, FiniteSets, TLC

\* ------------------------------------------------------------------ bounds
\* Number of times the project files may be edited in one behaviour.
MaxEdits == 1
\* Interpreter recursion limit, scaled down (CPython's default is 1000): the
\* deepest path a recursive helper may build before RecursionError is raised.
RecursionLimit == 5
\* Greatest number of code lines of a script whose lines are looked at.
MaxLines == 2
\* the lines a client sends before the input ends
MaxRequests == 3

\* ------------------------------------------------------------ the project
\* file_list.sort(): the scripts of the project in sorted path order.
ScriptOrder == <<"aa.m", "bb.m", "cc.m">>
Scripts == {ScriptOrder[i] : i \in 1..Len(ScriptOrder)}
\* A script name that is in no project.
UnknownScript == "zz.m"
QueryScripts == Scripts \cup {UnknownScript}
\* Path(script).stem
Stem == [s \in Scripts |-> CASE s = "aa.m" -> "aa" [] s = "bb.m" -> "bb" [] OTHER -> "cc"]
\* A project with subdirectories: the script paths it may hold, in sorted
\* (string) order. lib/b/ff.m sorts before lib/ff.m, 'b' standing before 'f'.
TreeOrder == <<"lib/aa.m", "lib/b/ff.m", "lib/ff.m", "tt.m", "uu.m">>
TreeScripts == {TreeOrder[i] : i \in 1..Len(TreeOrder)}
\* Path(script).parent, "." being the project root
Dir == [s \in Scripts \cup TreeScripts |->
            CASE s \in {"lib/aa.m", "lib/ff.m"} -> "lib"
              [] s = "lib/b/ff.m" -> "lib/b"
              [] OTHER -> "."]
\* Identifiers that occur in the scripts: the three stems and one more name.
Names == {"aa", "bb", "cc", "ff"}
StemNames == {Stem[s] : s \in Scripts}
\* None / a key that is absent from a dict of scripts.
NoScript == ""

\* Iteration orders of a collection of scripts: the order rglob yields the
\* files in, and the order in which a set of script names is iterated.
Orders == {o \in [1..Len(ScriptOrder) -> Scripts] : \A i, j \in 1..Len(ScriptOrder) : o[i] = o[j] => i = j}

\* ---------------------------------------------------------------- helpers
InList(x, l) == \E i \in 1..Len(l) : l[i] = x
Range(l) == {l[i] : i \in 1..Len(l)}
NoRepeat(l) == \A i, j \in 1..Len(l) : l[i] = l[j] => i = j
\* dict.get(k, set()) on a dict keyed by scripts
GetSet(d, k) == IF k \in DOMAIN d THEN d[k] ELSE {}
\* The members of set S in the iteration order ord.
InOrder(S, ord) == SelectSeq(ord, LAMBDA x : x \in S)
\* rank of a script in a sorted list of script paths (string comparison)
RankIn(file_list, s) == CHOOSE i \in 1..Len(file_list) : file_list[i] = s
Rank(s) == RankIn(ScriptOrder, s)

EmptyDict == [s \in {} |-> {}]
EmptyLists == [n \in Names |-> <<>>]
NoDefs == [n \in Names |-> [s \in Scripts |-> "none"]]
EmptyScan == [sf |-> EmptyDict, fs |-> EmptyLists, sc |-> EmptyDict, fd |-> NoDefs]

\* ----------------------------------------------------- script_parser.py
\* _parse_script_file, reading the file: a file that neither open() can read
\* (it carries the mark `unreadable`) is parsed as the content "".
NoContent == [expl |-> {}, calls |-> {}, blank |-> TRUE]
ReadContent(f) == IF "unreadable" \in DOMAIN f THEN NoContent ELSE f

\* _parse_script_file: the definitions of one file, an implicit one named
\* after the stem when there is no declaration and the content is not blank.
ParsedFunctions(f, s) ==
    IF f.expl # {} THEN f.expl
    ELSE IF ~f.blank THEN {Stem[s]} ELSE {}

\* variant: every definition of a file is recorded as an explicit one
ParseScriptFileAllExplicit(st, s, file) ==
    LET f == ReadContent(file)
        funcs == ParsedFunctions(f, s) IN
    [sf |-> [k \in DOMAIN st.sf \cup {s} |-> IF k = s THEN funcs ELSE st.sf[k]],
     sc |-> [k \in DOMAIN st.sc \cup {s} |-> IF k = s THEN f.calls ELSE st.sc[k]],
     fs |-> [n \in Names |-> IF n \in funcs /\ ~InList(s, st.fs[n])
                             THEN Append(st.fs[n], s) ELSE st.fs[n]],
     fd |-> [n \in Names |-> IF n \in funcs
                             THEN [st.fd[n] EXCEPT ![s] = "explicit_function"]
                             ELSE st.fd[n]]]

ParseScriptFile(st, s, file) ==
    LET f == ReadContent(file)
        funcs == ParsedFunctions(f, s) IN
    [sf |-> [k \in DOMAIN st.sf \cup {s} |-> IF k = s THEN funcs ELSE st.sf[k]],
     sc |-> [k \in DOMAIN st.sc \cup {s} |-> IF k = s THEN f.calls ELSE st.sc[k]],
     fs |-> [n \in Names |-> IF n \in funcs /\ ~InList(s, st.fs[n])
                             THEN Append(st.fs[n], s) ELSE st.fs[n]],
     fd |-> [n \in Names |-> IF n \in funcs
                             THEN [st.fd[n] EXCEPT ![s] = IF n \in f.expl THEN "explicit_function"
                                                          ELSE "script_file"]
                             ELSE st.fd[n]]]

RECURSIVE ParseAll(_, _, _)
ParseAll(st, fl, order) ==
    IF order = <<>> THEN st
    ELSE ParseAll(ParseScriptFile(st, Head(order), fl[Head(order)]), fl, Tail(order))

\* a force-map pass that appends to the list of the name only
ForceMapOneListOnly(st, s) ==
    LET n == Stem[s] IN
    IF InList(s, st.fs[n]) THEN st
    ELSE [st EXCEPT !.fs[n] = Append(@, s),
                    !.fd[n][s] = IF @ = "none" THEN "script_file" ELSE @]

\* _force_map_all_script_names, one script of self.script_files
ForceMapOne(st, s) ==
    LET n == Stem[s] IN
    IF InList(s, st.fs[n]) THEN st
    ELSE [sf |-> [k \in DOMAIN st.sf \cup {s} |->
                    IF k = s THEN GetSet(st.sf, s) \cup {n} ELSE st.sf[k]],
          sc |-> st.sc,
          fs |-> [st.fs EXCEPT ![n] = Append(@, s)],
          fd |-> [st.fd EXCEPT ![n][s] = IF @ = "none" THEN "script_file" ELSE @]]

RECURSIVE ForceMapAll(_, _)
ForceMapAll(st, order) ==
    IF order = <<>> THEN st
    ELSE ForceMapAll(ForceMapOne(st, Head(order)), Tail(order))

\* _extract_function_calls(content). A line of code is abstracted to its
\* form and the identifiers in it:
\*   "assign"     name = <rhs>(...)   or, with rhs = NoName, name = <literal>
\*   "call"       name(...)           with or without a closing `;`
\*   "bare_semi"  name;
\*   "bare"       name
NoName == ""
\* identifiers of the lines: two ordinary ones, one of a single letter
\* (len(name) > 1 fails) and one of matlab_keywords
LineNames == {"aa", "bb", "x", "disp"}
matlab_keywords == {"disp"}
SingleLetter == {"x"}
Lines ==
    {[form |-> "assign", name |-> n, rhs |-> r] : n \in LineNames, r \in LineNames \cup {NoName}}
    \cup {[form |-> f, name |-> n, rhs |-> NoName] :
             f \in {"call", "bare_semi", "bare"}, n \in LineNames}

\* assign_pattern: the names at the start of a line that `=` follows
AssignedVars(code_lines) ==
    {code_lines[i].name : i \in {j \in 1..Len(code_lines) : code_lines[j].form = "assign"}}

\* the names one line adds to calls: pattern_line_start (then `continue`),
\* pattern_rhs_call, pattern_bare_call, pattern_bare_call_no_semicolon
LineCalls(line, assigned_vars) ==
    LET name == IF line.form = "assign" THEN line.rhs ELSE line.name
        callable == name # NoName /\ name \notin matlab_keywords /\ name \notin SingleLetter
    IN IF line.form \in {"call", "assign"}
       THEN IF callable /\ name \notin assigned_vars THEN {name} ELSE {}
       ELSE IF callable THEN {name} ELSE {}

RECURSIVE ExtractFromLines(_, _, _)
ExtractFromLines(code_lines, assigned_vars, calls) ==
    IF code_lines = <<>> THEN calls \ matlab_keywords
    ELSE ExtractFromLines(Tail(code_lines), assigned_vars,
                          calls \cup LineCalls(Head(code_lines), assigned_vars))

ExtractFunctionCalls(code_lines) ==
    ExtractFromLines(code_lines, AssignedVars(code_lines), {})

\* _build_matlab_paths_correctly: project root, then each script directory
\* once, in script_creation_order.
RECURSIVE AddPaths(_, _)
AddPaths(paths, order) ==
    IF order = <<>> THEN paths
    ELSE AddPaths(IF InList(Dir[Head(order)], paths) THEN paths
                  ELSE Append(paths, Dir[Head(order)]), Tail(order))

\* matlab_paths of a project whose sorted file list is file_list
MatlabPathsOf(file_list) == AddPaths(<<".">>, file_list)
MatlabPaths == AddPaths(<<".">>, ScriptOrder)

\* the index of the first of paths that is the directory of s
PathPositionIn(paths, s) ==
    IF InList(Dir[s], paths)
    THEN CHOOSE i \in 1..Len(paths) :
            paths[i] = Dir[s] /\ \A j \in 1..(i - 1) : paths[j] # Dir[s]
    ELSE 999999

PathPosition(s) == PathPositionIn(MatlabPaths, s)

\* variant: the position of the directory on the search path is left out
GetMatlabPathPriorityNoPosition(file_list, s) ==
    <<IF Dir[s] = "." THEN 0 ELSE 1, 0, RankIn(file_list, s)>>

\* get_matlab_path_priority: (0 if in project root else 1, path position, script)
GetMatlabPathPriority(file_list, s) ==
    <<IF Dir[s] = "." THEN 0 ELSE 1, PathPositionIn(MatlabPathsOf(file_list), s),
      RankIn(file_list, s)>>

PriorityKey(s) == GetMatlabPathPriority(ScriptOrder, s)

KeyLess(k, l) ==
    \/ k[1] < l[1]
    \/ k[1] = l[1] /\ k[2] < l[2]
    \/ k[1] = l[1] /\ k[2] = l[2] /\ k[3] < l[3]

\* sorted(scripts, key=get_matlab_path_priority)[0] in a project whose sorted
\* file list is file_list, "" for no scripts
SelectSorted(file_list, S) ==
    IF S = {} THEN NoScript
    ELSE CHOOSE s \in S : \A t \in S \ {s} :
            KeyLess(GetMatlabPathPriority(file_list, s), GetMatlabPathPriority(file_list, t))

\* _select_by_matlab_path_rules: sorted(scripts, key=priority)[0], "" if empty
SelectByMatlabPathRules(S) ==
    IF S = {} THEN NoScript
    ELSE CHOOSE s \in S : \A t \in S \ {s} : KeyLess(PriorityKey(s), PriorityKey(t))

\* variant: the kind of definition is not looked at, only the search path
DeterminePrimaryByPathOnly(n, scripts, fd) == SelectByMatlabPathRules(Range(scripts))

\* _determine_primary_by_matlab_rules
DeterminePrimary(n, scripts, fd) ==
    LET explicit_functions == {s \in Range(scripts) : fd[n][s] = "explicit_function"}
        script_files == {s \in Range(scripts) : fd[n][s] = "script_file"}
    IN IF explicit_functions # {} THEN SelectByMatlabPathRules(explicit_functions)
       ELSE SelectByMatlabPathRules(script_files)

\* variant: the list is replaced by the primary alone
MoveToFrontAlone(scripts, p) == <<p>>

\* scripts.remove(primary); scripts.insert(0, primary)
MoveToFront(scripts, p) == <<p>> \o SelectSeq(scripts, LAMBDA x : x # p)

\* variant: every list is left in the order the files were parsed in
EstablishRelationshipsParseOrder(st) == st

\* _establish_matlab_syntax_relationships
EstablishRelationships(st) ==
    [st EXCEPT !.fs = [n \in Names |->
        IF Len(st.fs[n]) > 1
        THEN LET p == DeterminePrimary(n, st.fs[n], st.fd)
             IN IF InList(p, st.fs[n]) THEN MoveToFront(st.fs[n], p) ELSE st.fs[n]
        ELSE st.fs[n]]]

\* scan_project: clear, parse every file in rglob order, force-map every
\* script in set order, resolve the primary definitions.
ScanProject(fl, parseOrder, setOrder) ==
    EstablishRelationships(ForceMapAll(ParseAll(EmptyScan, fl, parseOrder), setOrder))

\* get_function_definition_for_script(...).get('is_internal_definition', False)
IsInternalDefinition(st, n, caller) ==
    /\ st.fs[n] # <<>>
    /\ InList(caller, st.fs[n])
    /\ st.fd[n][caller] = "explicit_function"

\* _get_context_based_recommendation: the first of the scripts whose
\* directory stands earliest on the search path, None when no directory does
ContextBasedRecommendation(scripts) ==
    LET cand == SelectSeq(scripts, LAMBDA x : InList(Dir[x], MatlabPaths)) IN
    IF cand = <<>> THEN NoScript
    ELSE cand[CHOOSE i \in 1..Len(cand) :
                /\ \A j \in 1..Len(cand) : PathPosition(cand[i]) <= PathPosition(cand[j])
                /\ \A j \in 1..(i - 1) : PathPosition(cand[j]) > PathPosition(cand[i])]

\* what a definition lookup reports: found, primary_script,
\* recommended_script, total_definitions and the is_internal_definition key
NoDefinition ==
    [found |-> FALSE, primary_script |-> NoScript, recommended_script |-> NoScript,
     total_definitions |-> 0, is_internal_definition |-> FALSE]

\* get_function_definition(func_name, calling_script)
GetFunctionDefinition(st, n, caller) ==
    IF st.fs[n] = <<>> THEN NoDefinition
    ELSE [found |-> TRUE, primary_script |-> st.fs[n][1],
          recommended_script |-> IF Len(st.fs[n]) > 1
                                 THEN ContextBasedRecommendation(st.fs[n]) ELSE NoScript,
          total_definitions |-> Len(st.fs[n]), is_internal_definition |-> FALSE]

\* variant: any definition in the calling script counts as internal
GetFunctionDefinitionForScriptAnyKind(st, n, caller) ==
    IF st.fs[n] = <<>> THEN NoDefinition
    ELSE IF InList(caller, st.fs[n])
    THEN [found |-> TRUE, primary_script |-> caller, recommended_script |-> caller,
          total_definitions |-> Len(st.fs[n]), is_internal_definition |-> TRUE]
    ELSE GetFunctionDefinition(st, n, caller)

\* get_function_definition_for_script(func_name, calling_script)
GetFunctionDefinitionForScript(st, n, caller) ==
    IF st.fs[n] = <<>> THEN NoDefinition
    ELSE IF InList(caller, st.fs[n]) /\ st.fd[n][caller] = "explicit_function"
    THEN [found |-> TRUE, primary_script |-> caller, recommended_script |-> caller,
          total_definitions |-> Len(st.fs[n]), is_internal_definition |-> TRUE]
    ELSE GetFunctionDefinition(st, n, caller)

\* MATLABScriptParser.get_function_scripts as RecursiveCallAnalyzer uses it
\* (Dict[str, str]): every known name mapped to its primary definition.
PrimaryMap(fs) == [n \in Names |-> IF fs[n] = <<>> THEN NoScript ELSE fs[n][1]]

\* --------------------------------------------- recursive_call_analyzer.py
NoDepth == -1
NoGraph == [s \in Scripts |-> {}]
NoChains == [s \in Scripts |-> <<>>]
NoDepths == [s \in Scripts |-> NoDepth]
NoVisits == [s \in Scripts |-> 0]

\* a graph builder that stores the called name itself, unresolved
AnalyzerBuildCallGraphUnresolved(cg, sc, fsmap) ==
    [s \in Scripts |-> cg[s] \cup {n \in GetSet(sc, s) :
                                        fsmap[n] # NoScript /\ fsmap[n] # s}]

\* RecursiveCallAnalyzer._build_call_graph: edges are added to the graph the
\* analyzer already holds.
AnalyzerBuildCallGraph(cg, sc, fsmap) ==
    [s \in Scripts |-> cg[s] \cup {fsmap[n] : n \in {m \in GetSet(sc, s) :
                                        fsmap[m] # NoScript /\ fsmap[m] # s}}]

\* _recursive_analyze(current_script, current_path, depth); st carries
\* visited_count, recursion_depth, call_chains, the number of logged
\* cycle warnings, recursion_stack, the greatest length it has had and
\* whether it has held a script twice.
RECURSIVE RecursiveAnalyze(_, _, _, _, _, _)
RECURSIVE AnalyzeCallees(_, _, _, _, _, _)
RecursiveAnalyze(cg, ord, st, current_script, current_path, depth) ==
    LET full_path == current_path \o <<current_script>>
        st1 == [visited |-> [st.visited EXCEPT ![current_script] = @ + 1],
                depth |-> [st.depth EXCEPT ![current_script] =
                              IF @ = NoDepth \/ depth > @ THEN depth ELSE @],
                chains |-> [st.chains EXCEPT ![current_script] = full_path],
                cycles |-> st.cycles,
                stack |-> Append(st.stack, current_script),
                stackRepeat |-> st.stackRepeat \/ InList(current_script, st.stack),
                maxStack |-> IF depth + 1 > st.maxStack THEN depth + 1 ELSE st.maxStack]
    IN AnalyzeCallees(cg, ord, st1, InOrder(GetSet(cg, current_script), ord), current_path, depth)

\* the loop over call_graph[current_script], then recursion_stack.pop()
AnalyzeCallees(cg, ord, st, callees, current_path, depth) ==
    IF callees = <<>> THEN [st EXCEPT !.stack = SubSeq(@, 1, Len(@) - 1)]
    ELSE LET called_script == Head(callees)
             st2 == IF ~InList(called_script, current_path)
                    THEN RecursiveAnalyze(cg, ord, st, called_script,
                                          current_path \o <<called_script>>, depth + 1)
                    ELSE [st EXCEPT !.cycles = @ + 1]
         IN AnalyzeCallees(cg, ord, st2, Tail(callees), current_path, depth)

InitTraversal == [visited |-> NoVisits, depth |-> NoDepths, chains |-> NoChains,
                  cycles |-> 0, stack |-> <<>>, stackRepeat |-> FALSE, maxStack |-> 0]

\* _generate_recursion_report (the fields the claims read); {} is EmptyReport
EmptyReport == [empty |-> TRUE, entry_script |-> NoScript, total_scripts |-> 0,
                call_chains |-> NoChains, recursion_depth |-> NoDepths,
                visited_count |-> NoVisits, cycles |-> 0, maxStack |-> 0,
                stackRepeat |-> FALSE]

GenerateRecursionReport(entry, st) ==
    [empty |-> FALSE, entry_script |-> entry,
     total_scripts |-> Cardinality({s \in Scripts : st.chains[s] # <<>>}),
     call_chains |-> st.chains, recursion_depth |-> st.depth,
     visited_count |-> st.visited, cycles |-> st.cycles, maxStack |-> st.maxStack,
     stackRepeat |-> st.stackRepeat]

\* analyze_recursive_calls(entry_script): scan, validate, build, descend.
\* an is the analyzer object, scan the outcome of parser.scan_project().
AnalyzeRecursiveCalls(an, scan, entry, ord) ==
    LET an1 == [an EXCEPT !.script_functions = scan.sf,
                          !.function_scripts = PrimaryMap(scan.fs),
                          !.script_calls = scan.sc]
    IN IF entry \notin DOMAIN an1.script_functions
       THEN [an |-> an1, report |-> EmptyReport]
       ELSE LET cg == AnalyzerBuildCallGraph(an1.call_graph, an1.script_calls, an1.function_scripts)
                st == RecursiveAnalyze(cg, ord, InitTraversal, entry, <<>>, 0)
            IN [an |-> [an1 EXCEPT !.call_graph = cg, !.call_chains = st.chains,
                                   !.recursion_depth = st.depth, !.visited_count = st.visited],
                report |-> GenerateRecursionReport(entry, st)]

\* `if not self.call_chains: self.analyze_recursive_calls(script)`
EnsureChains(an, scan, script, ord) ==
    IF an.call_chains = NoChains THEN AnalyzeRecursiveCalls(an, scan, script, ord).an ELSE an

\* the nested find_all_paths(start, target, visited, path) of
\* _find_path_to_script and _find_all_paths_to_script
RECURSIVE FindAllPathsTo(_, _, _, _, _, _)
RECURSIVE FindAllPathsVia(_, _, _, _, _, _)
\* variant: only direct calls are followed, the search stops below the start
FindAllPathsToDirectOnly(cg, ord, start, target, visited, path) ==
    LET current_path == path \o <<start>> IN
    IF start = target THEN <<current_path>>
    ELSE IF start \in visited \/ path # <<>> THEN <<>>
    ELSE FindAllPathsVia(cg, ord, InOrder(GetSet(cg, start), ord), target,
                         visited \cup {start}, current_path)

\* variant: the target test is applied to callees only, never to the start
FindAllPathsToCalleesOnly(cg, ord, start, target, visited, path) ==
    LET current_path == path \o <<start>> IN
    IF start = target /\ path # <<>> THEN <<current_path>>
    ELSE IF start \in visited THEN <<>>
    ELSE FindAllPathsVia(cg, ord, InOrder(GetSet(cg, start), ord), target,
                         visited \cup {start}, current_path)

FindAllPathsTo(cg, ord, start, target, visited, path) ==
    LET current_path == path \o <<start>> IN
    IF start = target THEN <<current_path>>
    ELSE IF start \in visited THEN <<>>
    ELSE FindAllPathsVia(cg, ord, InOrder(GetSet(cg, start), ord), target,
                         visited \cup {start}, current_path)

FindAllPathsVia(cg, ord, callees, target, visited, current_path) ==
    IF callees = <<>> THEN <<>>
    ELSE FindAllPathsTo(cg, ord, Head(callees), target, visited, current_path)
         \o FindAllPathsVia(cg, ord, Tail(callees), target, visited, current_path)

\* variant: the first path found is taken for the shortest
MinByLenFirstFound(paths) == paths[1]

\* min(all_paths, key=len): the first path of least length
MinByLen(paths) ==
    LET i == CHOOSE k \in 1..Len(paths) :
                /\ \A j \in 1..Len(paths) : Len(paths[k]) <= Len(paths[j])
                /\ \A j \in 1..(k - 1) : Len(paths[j]) > Len(paths[k])
    IN paths[i]

\* all_paths.sort(key=len): stable
RECURSIVE SortByLen(_)
SortByLen(paths) ==
    IF paths = <<>> THEN <<>>
    ELSE LET m == MinByLen(paths)
             i == CHOOSE k \in 1..Len(paths) : paths[k] = m /\ \A j \in 1..(k - 1) : paths[j] # m
         IN <<m>> \o SortByLen(SubSeq(paths, 1, i - 1) \o SubSeq(paths, i + 1, Len(paths)))

\* _find_path_to_script(from_script, to_script) -> path or None
FindPathToScript(an, scan, from_script, to_script, ord) ==
    LET an1 == EnsureChains(an, scan, from_script, ord)
        all_paths == FindAllPathsTo(an1.call_graph, ord, from_script, to_script, {}, <<>>)
    IN [an |-> an1, none |-> all_paths = <<>>,
        path |-> IF all_paths # <<>> THEN MinByLen(all_paths) ELSE <<>>]

\* _find_all_paths_to_script(from_script, to_script) -> list of paths
FindAllPathsToScript(an, scan, from_script, to_script, ord) ==
    LET an1 == EnsureChains(an, scan, from_script, ord)
    IN [an |-> an1,
        paths |-> SortByLen(FindAllPathsTo(an1.call_graph, ord, from_script, to_script, {}, <<>>))]

\* the nested find_all_paths(start, current_path) of _find_paths_to_leaves;
\* err is set when the recursion exceeds the interpreter's limit.
RECURSIVE LeafPaths(_, _, _, _)
RECURSIVE LeafPathsVia(_, _, _, _, _)
\* variant: the path to every script on the way is reported, leaf or not
LeafPathsEveryNode(cg, ord, start, path) ==
    LET current_path == path \o <<start>>
        called_scripts == GetSet(cg, start)
        here == IF Len(current_path) > 1 THEN <<current_path>> ELSE <<>>
    IN IF Len(current_path) > RecursionLimit THEN [err |-> TRUE, paths |-> <<>>]
       ELSE IF called_scripts = {} THEN [err |-> FALSE, paths |-> here]
       ELSE LeafPathsVia(cg, ord, InOrder(called_scripts, ord), current_path, here)

\* variant: below every script only the first callee is followed
LeafPathsFirstCallee(cg, ord, start, path) ==
    LET current_path == path \o <<start>>
        called_scripts == GetSet(cg, start)
    IN IF Len(current_path) > RecursionLimit THEN [err |-> TRUE, paths |-> <<>>]
       ELSE IF called_scripts = {}
       THEN [err |-> FALSE, paths |-> IF Len(current_path) > 1 THEN <<current_path>> ELSE <<>>]
       ELSE LeafPathsVia(cg, ord, SubSeq(InOrder(called_scripts, ord), 1, 1), current_path, <<>>)

LeafPaths(cg, ord, start, path) ==
    LET current_path == path \o <<start>>
        called_scripts == GetSet(cg, start)
    IN IF Len(current_path) > RecursionLimit THEN [err |-> TRUE, paths |-> <<>>]
       ELSE IF called_scripts = {}
       THEN [err |-> FALSE, paths |-> IF Len(current_path) > 1 THEN <<current_path>> ELSE <<>>]
       ELSE LeafPathsVia(cg, ord, InOrder(called_scripts, ord), current_path, <<>>)

\* variant: the loop over the callees ends at the first one that gave paths
LeafPathsViaFirstFound(cg, ord, callees, current_path, all_paths) ==
    IF callees = <<>> THEN [err |-> FALSE, paths |-> all_paths]
    ELSE LET sub == LeafPaths(cg, ord, Head(callees), current_path)
         IN IF sub.err \/ sub.paths # <<>> THEN sub
            ELSE LeafPathsVia(cg, ord, Tail(callees), current_path, all_paths)

LeafPathsVia(cg, ord, callees, current_path, all_paths) ==
    IF callees = <<>> THEN [err |-> FALSE, paths |-> all_paths]
    ELSE LET sub == LeafPaths(cg, ord, Head(callees), current_path)
         IN IF sub.err THEN sub
            ELSE LeafPathsVia(cg, ord, Tail(callees), current_path, all_paths \o sub.paths)

\* _find_paths_to_leaves(analysis_script)
FindPathsToLeaves(an, scan, analysis_script, ord) ==
    LET an1 == EnsureChains(an, scan, analysis_script, ord)
        r == LeafPaths(an1.call_graph, ord, analysis_script, <<>>)
    IN [an |-> an1, err |-> r.err, paths |-> r.paths]

\* _get_leaf_nodes(from_script): the keys of call_chains that are in no
\* callee set of the call graph (as a set: the order of the list is that of
\* the dict keys)
GetLeafNodes(an, scan, from_script, ord) ==
    LET an1 == EnsureChains(an, scan, from_script, ord)
        called_scripts == UNION {an1.call_graph[s] : s \in Scripts}
    IN [an |-> an1,
        leaf_nodes |-> {s \in Scripts : an1.call_chains[s] # <<>>} \ called_scripts]

\* analyze_specific_paths_with_details(entry_script, analysis_script); err is
\* set when _find_paths_to_leaves raised
AnalyzeSpecificPathsWithDetails(an, scan, entry, analysis, ord) ==
    LET an1 == AnalyzeRecursiveCalls(an, scan, entry, ord).an
        an2 == AnalyzeRecursiveCalls(an1, scan, analysis, ord).an
        a == FindAllPathsToScript(an2, scan, entry, analysis, ord)
        l == FindPathsToLeaves(a.an, scan, analysis, ord)
        g == GetLeafNodes(l.an, scan, analysis, ord)
    IN IF l.err THEN [an |-> l.an, err |-> TRUE, all_paths |-> <<>>, paths |-> <<>>,
                      leaf_nodes |-> {}]
       ELSE [an |-> g.an, err |-> FALSE, all_paths |-> a.paths, paths |-> l.paths,
             leaf_nodes |-> g.leaf_nodes]

\* reset(): every cached map is cleared
\* variant: the call graph is left as it was
ResetKeepsCallGraph(an) ==
    [script_functions |-> EmptyDict, function_scripts |-> [n \in Names |-> NoScript],
     script_calls |-> EmptyDict, call_graph |-> an.call_graph, call_chains |-> NoChains,
     recursion_depth |-> NoDepths, visited_count |-> NoVisits]

Reset(an) ==
    [script_functions |-> EmptyDict, function_scripts |-> [n \in Names |-> NoScript],
     script_calls |-> EmptyDict, call_graph |-> NoGraph, call_chains |-> NoChains,
     recursion_depth |-> NoDepths, visited_count |-> NoVisits]

\* _ensure_parsed_and_built: scan when a scanned map is empty, build the
\* graph when it has no entry
EnsureParsedAndBuilt(an, scan) ==
    LET an1 == IF an.script_functions = EmptyDict \/ an.script_calls = EmptyDict
               THEN [an EXCEPT !.script_functions = scan.sf,
                               !.function_scripts = PrimaryMap(scan.fs),
                               !.script_calls = scan.sc]
               ELSE an
    IN IF an1.call_graph = NoGraph
       THEN [an1 EXCEPT !.call_graph =
                AnalyzerBuildCallGraph(an1.call_graph, an1.script_calls, an1.function_scripts)]
       ELSE an1

\* get_root_scripts: the scanned scripts that no script calls, in the order
\* of the scanned map's keys (ord)
GetRootScripts(an, scan, ord) ==
    LET an1 == EnsureParsedAndBuilt(an, scan)
        called_scripts == UNION {an1.call_graph[s] : s \in Scripts}
    IN [an |-> an1,
        roots |-> InOrder(DOMAIN an1.script_functions \ called_scripts, ord)]

\* unique_paths: the first occurrence of every path, in order
RECURSIVE UniquePaths(_)
UniquePaths(paths) ==
    IF paths = <<>> THEN <<>>
    ELSE LET front == UniquePaths(SubSeq(paths, 1, Len(paths) - 1))
             last == paths[Len(paths)]
         IN IF InList(last, front) THEN front ELSE Append(front, last)

\* find_all_paths_from_roots_to_target, the loop over the roots
RECURSIVE PathsFromRoots(_, _, _, _, _, _)
PathsFromRoots(an, scan, target, roots, ord, all_paths) ==
    IF roots = <<>> THEN [an |-> an, paths |-> all_paths]
    ELSE IF Head(roots) = target
    THEN PathsFromRoots(an, scan, target, Tail(roots), ord, Append(all_paths, <<target>>))
    ELSE LET r == FindAllPathsToScript(an, scan, Head(roots), target, ord)
         IN PathsFromRoots(r.an, scan, target, Tail(roots), ord, all_paths \o r.paths)

\* entry_roots: None, or a list of scripts
NoRoots == [none |-> TRUE, list |-> <<>>]
GivenRoots(l) == [none |-> FALSE, list |-> l]

\* find_all_paths_from_roots_to_target(target_script, roots)
FindAllPathsFromRootsToTarget(an, scan, target, roots, ord) ==
    LET an1 == EnsureParsedAndBuilt(an, scan)
        g == IF roots.none THEN GetRootScripts(an1, scan, ord)
             ELSE [an |-> an1, roots |-> roots.list]
        r == PathsFromRoots(g.an, scan, target, g.roots, ord, <<>>)
    IN [an |-> r.an, paths |-> UniquePaths(r.paths)]

\* what analyze_impact_for_changes reports for one changed script
NoImpact == [s \in {} |-> {}]
ImpactOf(upstream, downstream) ==
    [entry_to_changed |-> upstream, changed_to_leaves |-> downstream,
     upstream_path_count |-> Len(upstream), downstream_path_count |-> Len(downstream)]

\* analyze_impact_for_changes, the loop over the changed scripts; err is set
\* when _find_paths_to_leaves raised
RECURSIVE ImpactForEach(_, _, _, _, _, _)
ImpactForEach(an, scan, changed, roots, ord, impact) ==
    IF changed = <<>> THEN [an |-> an, err |-> FALSE, impact |-> impact]
    ELSE LET target == Head(changed)
             up == FindAllPathsFromRootsToTarget(an, scan, target, GivenRoots(roots), ord)
             down == FindPathsToLeaves(up.an, scan, target, ord)
         IN IF down.err THEN [an |-> down.an, err |-> TRUE, impact |-> impact]
            ELSE ImpactForEach(down.an, scan, Tail(changed), roots, ord,
                    [t \in DOMAIN impact \cup {target} |->
                        IF t = target THEN ImpactOf(up.paths, down.paths) ELSE impact[t]])

\* analyze_impact_for_changes(changed_scripts, entry_roots)
AnalyzeImpactForChanges(an, scan, changed_scripts, entry_roots, ord) ==
    LET an1 == EnsureParsedAndBuilt(an, scan)
        g == IF entry_roots.none THEN GetRootScripts(an1, scan, ord)
             ELSE [an |-> an1, roots |-> entry_roots.list]
    IN ImpactForEach(g.an, scan, changed_scripts, g.roots, ord, NoImpact)

\* ------------------------------------------------- call_chain_builder.py
\* variant: the `called_script != script_name` test is left out
BuilderBuildCallGraphNoSelfTest(cg, scan) ==
    [s \in Scripts |-> cg[s] \cup {scan.fs[n][1] : n \in {m \in GetSet(scan.sc, s) :
                                        /\ scan.fs[m] # <<>>
                                        /\ ~IsInternalDefinition(scan, m, s)}}]

\* CallChainBuilder._build_call_graph: edges are added to the graph the
\* builder already holds.
BuilderBuildCallGraph(cg, scan) ==
    [s \in Scripts |-> cg[s] \cup {scan.fs[n][1] : n \in {m \in GetSet(scan.sc, s) :
                                        /\ scan.fs[m] # <<>>
                                        /\ ~IsInternalDefinition(scan, m, s)
                                        /\ scan.fs[m][1] # s}}]

\* _recursive_build_chain(current_script, current_path)
RECURSIVE RecursiveBuildChain(_, _, _, _, _)
RECURSIVE BuildChainCallees(_, _, _, _, _)
RecursiveBuildChain(cg, ord, chains, current_script, current_path) ==
    BuildChainCallees(cg, ord, [chains EXCEPT ![current_script] = current_path],
                      InOrder(GetSet(cg, current_script), ord), current_path)

BuildChainCallees(cg, ord, chains, callees, current_path) ==
    IF callees = <<>> THEN chains
    ELSE LET called_script == Head(callees)
             chains2 == IF ~InList(called_script, current_path)
                        THEN RecursiveBuildChain(cg, ord, chains, called_script,
                                                 current_path \o <<called_script>>)
                        ELSE chains
         IN BuildChainCallees(cg, ord, chains2, Tail(callees), current_path)

\* build_call_chains(entry_script); b is the builder object
BuildCallChains(b, scan, entry, ord) ==
    LET b1 == [b EXCEPT !.scan = scan]
    IN IF entry \notin DOMAIN scan.sf
       THEN [b |-> b1, chains |-> NoChains]
       ELSE LET cg == BuilderBuildCallGraph(b1.call_graph, scan)
                chains == RecursiveBuildChain(cg, ord, NoChains, entry, <<entry>>)
            IN [b |-> [b1 EXCEPT !.call_graph = cg, !.call_chains = chains],
                chains |-> chains]

\* CallChainBuilder.find_path_to_script(entry_script, target_script)
BuilderFindPathToScript(b, scan, entry, target, ord) ==
    LET b1 == IF b.call_chains = NoChains THEN BuildCallChains(b, scan, entry, ord).b ELSE b
        path == IF target \in Scripts THEN b1.call_chains[target] ELSE <<>>
    IN [b |-> b1, none |-> path = <<>>, path |-> path]

\* CallChainBuilder.__init__
NewBuilder == [scan |-> EmptyScan, call_graph |-> NoGraph, call_chains |-> NoChains]

\* ------------------------------------------------------------------ state
VARIABLES
    files,              \* the project on disk: script -> scanned content
    edits,              \* number of edits made to the project so far
    program,            \* which program this process runs: the analyzer or the builder
    hash_order,         \* the order in which this process iterates a set of scripts
    script_functions,   \* RecursiveCallAnalyzer.script_functions
    function_scripts,   \* RecursiveCallAnalyzer.function_scripts
    script_calls,       \* RecursiveCallAnalyzer.script_calls
    call_graph,         \* RecursiveCallAnalyzer.call_graph
    call_chains,        \* RecursiveCallAnalyzer.call_chains
    recursion_depth,    \* RecursiveCallAnalyzer.recursion_depth
    visited_count,      \* RecursiveCallAnalyzer.visited_count
    builder,            \* the CallChainBuilder: its parser's maps, call_graph, call_chains
    analyzers,          \* MCPRecursiveAnalyzerServer.analyzers: the project paths cached
    result,             \* what the last operation returned or raised
    server              \* the MCP server: its initialized flag, its place in the
                        \* loop of run_server, the lines read and the responses written

avars == <<script_functions, function_scripts, script_calls, call_graph,
           call_chains, recursion_depth, visited_count>>
vars == <<files, edits, program, hash_order, avars, builder, analyzers, result, server>>

\* the analyzer object as one record
Analyzer ==
    [script_functions |-> script_functions, function_scripts |-> function_scripts,
     script_calls |-> script_calls, call_graph |-> call_graph,
     call_chains |-> call_chains, recursion_depth |-> recursion_depth,
     visited_count |-> visited_count]

SetAnalyzer(an) ==
    /\ script_functions' = an.script_functions
    /\ function_scripts' = an.function_scripts
    /\ script_calls' = an.script_calls
    /\ call_graph' = an.call_graph
    /\ call_chains' = an.call_chains
    /\ recursion_depth' = an.recursion_depth
    /\ visited_count' = an.visited_count

AnalyzerIs(an) ==
    /\ script_functions = an.script_functions
    /\ function_scripts = an.function_scripts
    /\ script_calls = an.script_calls
    /\ call_graph = an.call_graph
    /\ call_chains = an.call_chains
    /\ recursion_depth = an.recursion_depth
    /\ visited_count = an.visited_count

\* RecursiveCallAnalyzer.__init__ / reset(): every map empty
NewAnalyzer ==
    [script_functions |-> EmptyDict, function_scripts |-> [n \in Names |-> NoScript],
     script_calls |-> EmptyDict, call_graph |-> NoGraph, call_chains |-> NoChains,
     recursion_depth |-> NoDepths, visited_count |-> NoVisits]

\* the MCP server object and the JSON-RPC messages of its loop
\* a line json.loads rejects
BadJson == "{"
NoRequest == [method |-> "", project_path |-> "", entry |-> NoScript]
NotInitialized == -32002
MethodNotFound == -32601
ParseError == -32700
NoResponse == [kind |-> "none", code |-> 0, line |-> 0]
ResultResponse == [NoResponse EXCEPT !.kind = "result"]
ErrorResponse(code) == [NoResponse EXCEPT !.kind = "error", !.code = code]

\* __init__: initialized = False; run_server is about to call readline()
NewServer ==
    [initialized |-> FALSE, pc |-> "readline", request |-> NoRequest,
     response |-> NoResponse, input |-> <<>>, output |-> <<>>]

\* what an operation hands back: op and its arguments, then the outcome
NoResult ==
    [op |-> "none", a1 |-> NoScript, a2 |-> NoScript, status |-> "ok",
     path |-> <<>>, paths |-> <<>>, report |-> EmptyReport,
     roots |-> NoRoots, impact |-> NoImpact,
     name |-> "", definition |-> NoDefinition,
     project_path |-> "", changed |-> <<>>,
     scripts |-> {}, primary |-> NoScript, leaf_nodes |-> {},
     calls |-> {}]

\* the outcomes parser.scan_project() can have on the files as they are now
Scans(fl) ==
    LET parsed == {ParseAll(EmptyScan, fl, po) : po \in Orders}
        mapped == UNION {{ForceMapAll(st, so) : so \in Orders} : st \in parsed}
    IN {EstablishRelationships(st) : st \in mapped}
\* the same for an operation that scans only `if not self.call_chains`
ScansIfNoChains(fl) == IF call_chains = NoChains THEN Scans(fl) ELSE {EmptyScan}

\* ---------------------------------------------------------------- actions
\* analyzer.analyze_recursive_calls(entry)
CallAnalyzeRecursiveCalls ==
    /\ program = "analyzer"
    /\ \E scan \in Scans(files), entry \in QueryScripts :
        LET r == AnalyzeRecursiveCalls(Analyzer, scan, entry, hash_order) IN
        /\ SetAnalyzer(r.an)
        /\ result' = [NoResult EXCEPT !.op = "analyze", !.a1 = entry,
                         !.status = IF r.report.empty THEN "empty" ELSE "ok",
                         !.report = r.report]
        /\ UNCHANGED <<files, edits, program, hash_order, builder, analyzers, server>>

\* analyzer._find_path_to_script(from, to)
CallFindPathToScript ==
    /\ program = "analyzer"
    /\ \E scan \in ScansIfNoChains(files), from \in QueryScripts, to \in QueryScripts :
        LET r == FindPathToScript(Analyzer, scan, from, to, hash_order) IN
        /\ SetAnalyzer(r.an)
        /\ result' = [NoResult EXCEPT !.op = "path", !.a1 = from, !.a2 = to,
                         !.status = IF r.none THEN "none" ELSE "ok", !.path = r.path]
        /\ UNCHANGED <<files, edits, program, hash_order, builder, analyzers, server>>

\* analyzer._find_all_paths_to_script(from, to)
CallFindAllPathsToScript ==
    /\ program = "analyzer"
    /\ \E scan \in ScansIfNoChains(files), from \in Scripts, to \in Scripts :
        LET r == FindAllPathsToScript(Analyzer, scan, from, to, hash_order) IN
        /\ SetAnalyzer(r.an)
        /\ result' = [NoResult EXCEPT !.op = "allpaths", !.a1 = from, !.a2 = to,
                         !.paths = r.paths]
        /\ UNCHANGED <<files, edits, program, hash_order, builder, analyzers, server>>

\* analyzer._find_paths_to_leaves(script)
CallFindPathsToLeaves ==
    /\ program = "analyzer"
    /\ \E scan \in ScansIfNoChains(files), start \in QueryScripts :
        LET r == FindPathsToLeaves(Analyzer, scan, start, hash_order) IN
        /\ SetAnalyzer(r.an)
        /\ result' = [NoResult EXCEPT !.op = "leaves", !.a1 = start,
                         !.status = IF r.err THEN "RecursionError" ELSE "ok",
                         !.paths = r.paths]
        /\ UNCHANGED <<files, edits, program, hash_order, builder, analyzers, server>>

\* analyzer.reset()
CallReset ==
    /\ program = "analyzer"
    /\ SetAnalyzer(Reset(Analyzer))
    /\ result' = [NoResult EXCEPT !.op = "reset"]
    /\ UNCHANGED <<files, edits, program, hash_order, builder, analyzers, server>>

\* ------------------------------------------------- the path-engine system
\* Projects of scripts without declarations that call one another by stem.
ImplicitContents == {[expl |-> {}, calls |-> c, blank |-> FALSE] : c \in SUBSET StemNames}

InitPaths ==
    /\ files \in {f \in [Scripts -> ImplicitContents] : \A s \in Scripts : Stem[s] \notin f[s].calls}
    /\ edits = 0
    /\ program = "analyzer"
    /\ hash_order \in Orders
    /\ AnalyzerIs(NewAnalyzer)
    /\ builder = NewBuilder
    /\ analyzers = {}
    /\ result = NoResult
    /\ server = NewServer

NextPaths ==
    \/ CallAnalyzeRecursiveCalls
    \/ CallFindPathToScript
    \/ CallFindAllPathsToScript
    \/ CallFindPathsToLeaves
    \/ CallReset

SpecPaths == InitPaths /\ [][NextPaths]_vars

\* ------------------------------------------------ the graph-building system
\* What an edit can leave in a script: a script body that calls nothing, one
\* that calls aa, one that calls ff, or a declaration of ff with a call of ff.
EditContents ==
    {[expl |-> {}, calls |-> {}, blank |-> FALSE],
     [expl |-> {}, calls |-> {"aa"}, blank |-> FALSE],
     [expl |-> {}, calls |-> {"ff"}, blank |-> FALSE],
     [expl |-> {"ff"}, calls |-> {"ff"}, blank |-> FALSE]}

\* The project as first found: aa.m declares ff and calls bb and cc,
\* bb.m calls cc, cc.m calls nothing.
FirstFiles ==
    [s \in Scripts |-> [expl |-> IF s = "aa.m" THEN {"ff"} ELSE {}, blank |-> FALSE,
                        calls |-> CASE s = "aa.m" -> {"bb", "cc"}
                                    [] s = "bb.m" -> {"cc"}
                                    [] OTHER -> {}]]

\* a script of the project is rewritten on disk
EditFile ==
    /\ edits < MaxEdits
    /\ \E s \in Scripts, c \in EditContents :
        /\ files[s] # c
        /\ files' = [files EXCEPT ![s] = c]
    /\ edits' = edits + 1
    /\ UNCHANGED <<program, hash_order, avars, builder, analyzers, result, server>>

\* builder.build_call_chains(entry)
CallBuildCallChains ==
    /\ program = "builder"
    /\ \E scan \in Scans(files), entry \in QueryScripts :
        LET r == BuildCallChains(builder, scan, entry, hash_order) IN
        /\ builder' = r.b
        /\ result' = [NoResult EXCEPT !.op = "build", !.a1 = entry,
                         !.status = IF r.chains = NoChains THEN "empty" ELSE "ok",
                         !.report = [EmptyReport EXCEPT !.empty = r.chains = NoChains,
                                                        !.call_chains = r.chains]]
        /\ UNCHANGED <<files, edits, program, hash_order, avars, analyzers, server>>

Init ==
    /\ files = FirstFiles
    /\ edits = 0
    /\ program \in {"analyzer", "builder"}
    /\ hash_order \in Orders
    /\ AnalyzerIs(NewAnalyzer)
    /\ builder = NewBuilder
    /\ analyzers = {}
    /\ result = NoResult
    /\ server = NewServer

Next ==
    \/ EditFile
    \/ CallAnalyzeRecursiveCalls
    \/ CallReset
    \/ CallBuildCallChains

Spec == Init /\ [][Next]_vars

\* ---------------------------------------- mcp_recursive_analyzer_server.py
\* the project directory, a path at which nothing exists, and the path of a
\* regular file (Path.exists() is true of it, rglob finds nothing below it)
ProjectPath == "proj"
MissingPath == "nowhere"
FilePath == "proj/aa.m"
ProjectPaths == {ProjectPath, MissingPath, FilePath}

\* the outcome of scan_project() for an analyzer made for project_path, scan
\* being its outcome on the project's directory: rglob finds nothing elsewhere
ScanAt(project_path, scan) == IF project_path = ProjectPath THEN scan ELSE EmptyScan

\* analyze_specific_paths(entry_script, analysis_script)
AnalyzeSpecificPaths(an, scan, entry, analysis, ord) ==
    LET an1 == AnalyzeRecursiveCalls(an, scan, entry, ord).an
        an2 == AnalyzeRecursiveCalls(an1, scan, analysis, ord).an
        p == FindPathToScript(an2, scan, entry, analysis, ord)
        l == FindPathsToLeaves(p.an, scan, analysis, ord)
    IN [an |-> l.an, err |-> l.err, path |-> p.path, paths |-> l.paths]

\* The except branch of a tool method: the failure becomes the result
\* {"error": ..., "input_parameters": kwargs}.
\* variant: the failure is not caught in the tool method; handle_tools_call
\* catches it and answers with the JSON-RPC error -32001, without parameters
ErrorResultFromToolsCall(call) == [NoResult EXCEPT !.op = call.op, !.status = "rpc_error"]

ErrorResult(call) == [call EXCEPT !.status = "error"]

\* _get_analyzer(project_path), then reset() when force_rescan is set. The
\* analyzer kept for FilePath never holds anything: every scan of it is empty.
GetAnalyzer(project_path, force_rescan) ==
    LET cached == IF project_path = ProjectPath /\ project_path \in analyzers
                  THEN Analyzer ELSE NewAnalyzer
    IN IF force_rescan THEN Reset(cached) ELSE cached

\* self.analyzers[project_path] after the query: the state variables hold
\* the analyzer of ProjectPath
StoreAnalyzer(project_path, an) ==
    IF project_path = ProjectPath THEN SetAnalyzer(an) ELSE UNCHANGED avars

\* execute_matlab_recursive_analyze(project_path, entry_script,
\* analysis_script, force_rescan): any exception becomes an error result.
\* found is the outcome a scan of the project directory has.
RunMatlabRecursiveAnalyze(project_path, entry, analysis, force_rescan, found) ==
    LET call == [NoResult EXCEPT !.op = "execute_recursive_analyze",
                                 !.project_path = project_path,
                                 !.a1 = entry, !.a2 = analysis]
    IN IF project_path = MissingPath
       THEN /\ result' = ErrorResult(call)
            /\ UNCHANGED <<avars, analyzers>>
       ELSE LET an == GetAnalyzer(project_path, force_rescan)
                scan == ScanAt(project_path, found)
                r == AnalyzeSpecificPaths(an, scan, entry, analysis, hash_order)
            IN /\ analyzers' = analyzers \cup {project_path}
               /\ StoreAnalyzer(project_path, r.an)
               /\ result' = IF r.err THEN ErrorResult(call)
                            ELSE [call EXCEPT !.path = r.path, !.paths = r.paths]

\* the tool matlab_recursive_analyze, called on the server object
ExecuteMatlabRecursiveAnalyze ==
    /\ program = "server"
    /\ \E found \in Scans(files) :
       \E project_path \in ProjectPaths, entry \in QueryScripts,
          analysis \in QueryScripts, force_rescan \in BOOLEAN :
        RunMatlabRecursiveAnalyze(project_path, entry, analysis, force_rescan, found)
    /\ UNCHANGED <<files, edits, program, hash_order, builder, server>>

\* the changed_scripts and entry_roots a client sends
ChangedChoices == {<<>>} \cup {<<c>> : c \in QueryScripts}
ServerRootChoices == {NoRoots, GivenRoots(<<"aa.m">>)}

\* execute_matlab_impact_from_git_diff(changed_scripts, project_path,
\* entry_roots, force_rescan): any exception becomes an error result.
ExecuteMatlabImpactFromGitDiff ==
    /\ program = "server"
    /\ \E found \in Scans(files) :
       \E project_path \in ProjectPaths, changed \in ChangedChoices,
          entry_roots \in ServerRootChoices, force_rescan \in BOOLEAN :
        LET call == [NoResult EXCEPT !.op = "execute_impact",
                                     !.project_path = project_path,
                                     !.changed = changed, !.roots = entry_roots]
        IN IF changed = <<>> \/ project_path = MissingPath
           THEN /\ result' = ErrorResult(call)
                /\ UNCHANGED <<avars, analyzers>>
           ELSE LET an == GetAnalyzer(project_path, force_rescan)
                    scan == ScanAt(project_path, found)
                    r == AnalyzeImpactForChanges(an, scan, changed, entry_roots, hash_order)
                IN /\ analyzers' = analyzers \cup {project_path}
                   /\ StoreAnalyzer(project_path, r.an)
                   /\ result' = IF r.err THEN ErrorResult(call)
                                ELSE [call EXCEPT !.impact = r.impact]
    /\ UNCHANGED <<files, edits, program, hash_order, builder, server>>

\* run_server reads the end of its input (`if not line: break`)
ReadEndOfInput ==
    /\ program = "server"
    /\ program' = "stopped"
    /\ result' = [NoResult EXCEPT !.op = "end_of_input"]
    /\ UNCHANGED <<files, edits, hash_order, avars, builder, analyzers, server>>

\* The projects the server is asked about: the one first found, and the same
\* with cc.m calling aa, which closes the cycles aa -> cc -> aa and
\* aa -> bb -> cc -> aa.
ServedFiles == {FirstFiles, [FirstFiles EXCEPT !["cc.m"].calls = {"aa"}]}

InitServer ==
    /\ files \in ServedFiles
    /\ edits = 0
    /\ program = "server"
    /\ hash_order = ScriptOrder
    /\ AnalyzerIs(NewAnalyzer)
    /\ builder = NewBuilder
    /\ analyzers = {}
    /\ result = NoResult
    /\ server = NewServer

NextServer ==
    \/ ExecuteMatlabRecursiveAnalyze
    \/ ExecuteMatlabImpactFromGitDiff
    \/ ReadEndOfInput

SpecServer == InitServer /\ [][NextServer]_vars

\* ------------------------------------------------------ impact queries
\* the entry_roots a caller passes: none, one script, or two
RootChoices ==
    {NoRoots} \cup {GivenRoots(<<r>>) : r \in Scripts}
              \cup {GivenRoots(l) : l \in {o \in [1..2 -> Scripts] : o[1] # o[2]}}

\* the scan outcomes an impact query can meet: it scans when a scanned map
\* or the recorded chains are empty
ScansIfNeeded(fl) ==
    IF script_functions = EmptyDict \/ call_chains = NoChains THEN Scans(fl) ELSE {EmptyScan}

\* analyzer.analyze_impact_for_changes([changed], entry_roots)
CallAnalyzeImpactForChanges ==
    /\ program = "analyzer"
    /\ \E scan \in ScansIfNeeded(files), changed \in QueryScripts, entry_roots \in RootChoices :
        LET r == AnalyzeImpactForChanges(Analyzer, scan, <<changed>>, entry_roots, hash_order) IN
        /\ SetAnalyzer(r.an)
        /\ result' = [NoResult EXCEPT !.op = "impact", !.a1 = changed, !.roots = entry_roots,
                         !.status = IF r.err THEN "RecursionError" ELSE "ok",
                         !.impact = r.impact]
        /\ UNCHANGED <<files, edits, program, hash_order, builder, analyzers, server>>

\* analyzer.get_root_scripts()
CallGetRootScripts ==
    /\ program = "analyzer"
    /\ \E scan \in ScansIfNeeded(files) :
        LET r == GetRootScripts(Analyzer, scan, hash_order) IN
        /\ SetAnalyzer(r.an)
        /\ result' = [NoResult EXCEPT !.op = "roots", !.path = r.roots]
        /\ UNCHANGED <<files, edits, program, hash_order, builder, analyzers, server>>

\* impact queries on the projects of the path-engine system, for two of the
\* orders in which a process may iterate a set
InitImpact ==
    /\ files \in {f \in [Scripts -> ImplicitContents] : \A s \in Scripts : Stem[s] \notin f[s].calls}
    /\ edits = 0
    /\ program = "analyzer"
    /\ hash_order \in {ScriptOrder, <<"cc.m", "bb.m", "aa.m">>}
    /\ AnalyzerIs(NewAnalyzer)
    /\ builder = NewBuilder
    /\ analyzers = {}
    /\ result = NoResult
    /\ server = NewServer

NextImpact ==
    \/ CallAnalyzeImpactForChanges
    \/ CallReset

SpecImpact == InitImpact /\ [][NextImpact]_vars

\* ------------------------------------------------------ detailed queries
\* analyzer.analyze_specific_paths_with_details(entry, analysis)
CallAnalyzeSpecificPathsWithDetails ==
    /\ program = "analyzer"
    /\ \E scan \in Scans(files), entry \in QueryScripts, analysis \in QueryScripts :
        LET r == AnalyzeSpecificPathsWithDetails(Analyzer, scan, entry, analysis, hash_order) IN
        /\ SetAnalyzer(r.an)
        /\ result' = [NoResult EXCEPT !.op = "details", !.a1 = entry, !.a2 = analysis,
                         !.status = IF r.err THEN "RecursionError" ELSE "ok",
                         !.path = IF r.all_paths = <<>> THEN <<>> ELSE r.all_paths[1],
                         !.paths = r.paths, !.leaf_nodes = r.leaf_nodes]
        /\ UNCHANGED <<files, edits, program, hash_order, builder, analyzers, server>>

NextDetails ==
    \/ CallAnalyzeSpecificPathsWithDetails
    \/ CallReset

\* detailed queries on the projects of the impact system
SpecDetails == InitImpact /\ [][NextDetails]_vars

\* ------------------------------------------------------- the cache system
InitCache ==
    /\ files = FirstFiles
    /\ edits = 0
    /\ program = "analyzer"
    /\ hash_order \in Orders
    /\ AnalyzerIs(NewAnalyzer)
    /\ builder = NewBuilder
    /\ analyzers = {}
    /\ result = NoResult
    /\ server = NewServer

NextCache ==
    \/ EditFile
    \/ CallReset
    \/ CallAnalyzeRecursiveCalls
    \/ CallFindPathsToLeaves
    \/ CallGetRootScripts

SpecCache == InitCache /\ [][NextCache]_vars

\* ---------------------------------------------------- the parser system
\* What a script of these projects holds: nothing, a script body, or
\* declarations of bb, of ff, or of both.
ResolveContents ==
    {[expl |-> {}, calls |-> {}, blank |-> TRUE]}
    \cup {[expl |-> e, calls |-> {}, blank |-> FALSE] : e \in SUBSET {"bb", "ff"}}

\* parser.scan_project(); the parser is the one the builder owns
CallScanProject ==
    /\ program = "parser"
    /\ \E scan \in Scans(files) :
        /\ builder' = [builder EXCEPT !.scan = scan]
        /\ result' = [NoResult EXCEPT !.op = "scan"]
    /\ UNCHANGED <<files, edits, program, hash_order, avars, analyzers, server>>

\* parser.get_function_definition_for_script(func_name, calling_script)
CallGetFunctionDefinitionForScript ==
    /\ program = "parser"
    /\ \E n \in Names, caller \in Scripts :
        result' = [NoResult EXCEPT !.op = "definition", !.name = n, !.a1 = caller,
                      !.definition = GetFunctionDefinitionForScript(builder.scan, n, caller)]
    /\ UNCHANGED <<files, edits, program, hash_order, avars, builder, analyzers, server>>

InitResolve ==
    /\ files \in [Scripts -> ResolveContents]
    /\ edits = 0
    /\ program = "parser"
    /\ hash_order = ScriptOrder
    /\ AnalyzerIs(NewAnalyzer)
    /\ builder = NewBuilder
    /\ analyzers = {}
    /\ result = NoResult
    /\ server = NewServer

NextResolve ==
    \/ CallScanProject
    \/ CallGetFunctionDefinitionForScript

SpecResolve == InitResolve /\ [][NextResolve]_vars

\* ----------------------------------------- the search-path selection
\* a script body that declares and calls nothing
PlainContent == [expl |-> {}, calls |-> {}, blank |-> FALSE]
\* file_list after file_list.sort(): the scripts on disk in sorted order
FileList == SelectSeq(TreeOrder, LAMBDA x : x \in DOMAIN files)

\* parser._select_by_matlab_path_rules(scripts) after a scan of the project,
\* scripts being some of the scanned scripts
CallSelectByMatlabPathRules ==
    /\ program = "parser"
    /\ \E S \in SUBSET (DOMAIN files) :
        result' = [NoResult EXCEPT !.op = "select", !.scripts = S,
                                   !.primary = SelectSorted(FileList, S)]
    /\ UNCHANGED <<files, edits, program, hash_order, avars, builder, analyzers, server>>

\* projects that hold some of the scripts of TreeOrder
InitSelect ==
    /\ files \in {[s \in P |-> PlainContent] : P \in SUBSET TreeScripts \ {{}}}
    /\ edits = 0
    /\ program = "parser"
    /\ hash_order = ScriptOrder
    /\ AnalyzerIs(NewAnalyzer)
    /\ builder = NewBuilder
    /\ analyzers = {}
    /\ result = NoResult
    /\ server = NewServer

NextSelect == CallSelectByMatlabPathRules

SpecSelect == InitSelect /\ [][NextSelect]_vars

\* ------------------------------------------------------ the builder system
\* builder.find_path_to_script(entry, target)
CallBuilderFindPathToScript ==
    /\ program = "builder"
    /\ \E scan \in Scans(files), entry \in QueryScripts, target \in QueryScripts :
        LET r == BuilderFindPathToScript(builder, scan, entry, target, hash_order) IN
        /\ builder' = r.b
        /\ result' = [NoResult EXCEPT !.op = "builder_path", !.a1 = entry, !.a2 = target,
                         !.status = IF r.none THEN "none" ELSE "ok", !.path = r.path]
        /\ UNCHANGED <<files, edits, program, hash_order, avars, analyzers, server>>

\* one builder, asked to build chains and to find paths in any order, on the
\* projects of the path-engine system
InitBuilder ==
    /\ files \in {f \in [Scripts -> ImplicitContents] : \A s \in Scripts : Stem[s] \notin f[s].calls}
    /\ edits = 0
    /\ program = "builder"
    /\ hash_order \in {ScriptOrder, <<"cc.m", "bb.m", "aa.m">>}
    /\ AnalyzerIs(NewAnalyzer)
    /\ builder = NewBuilder
    /\ analyzers = {}
    /\ result = NoResult
    /\ server = NewServer

NextBuilder ==
    \/ CallBuildCallChains
    \/ CallBuilderFindPathToScript

SpecBuilder == InitBuilder /\ [][NextBuilder]_vars

\* ------------------------------------------------------ the lexical system
\* parser._extract_function_calls(content) on the script that `files` holds
\* as its lines of code
CallExtractFunctionCalls ==
    /\ program = "parser"
    /\ result' = [NoResult EXCEPT !.op = "extract_calls",
                                  !.calls = ExtractFunctionCalls(files)]
    /\ UNCHANGED <<files, edits, program, hash_order, avars, builder, analyzers, server>>

RECURSIVE Contents(_)
Contents(k) ==
    IF k = 0 THEN {<<>>}
    ELSE LET shorter == Contents(k - 1)
         IN shorter \cup {Append(c, l) : c \in shorter, l \in Lines}

InitLex ==
    /\ files \in Contents(MaxLines)
    /\ edits = 0
    /\ program = "parser"
    /\ hash_order = ScriptOrder
    /\ AnalyzerIs(NewAnalyzer)
    /\ builder = NewBuilder
    /\ analyzers = {}
    /\ result = NoResult
    /\ server = NewServer

NextLex == CallExtractFunctionCalls

SpecLex == InitLex /\ [][NextLex]_vars

\* ------------------------------------------------------ the reading system
\* Projects in which a file may be unreadable: what a script holds is
\* nothing, a body that calls aa or bb, a declaration of ff, or a
\* declaration of ff with a call of aa that no open() can read.
UnreadableFile == [expl |-> {"ff"}, calls |-> {"aa"}, blank |-> FALSE, unreadable |-> TRUE]
ReadContents ==
    {NoContent, UnreadableFile, [expl |-> {"ff"}, calls |-> {}, blank |-> FALSE]}
    \cup {[expl |-> {}, calls |-> {c}, blank |-> FALSE] : c \in {"aa", "bb"}}

InitRead ==
    /\ files \in [Scripts -> ReadContents]
    /\ edits = 0
    /\ program = "parser"
    /\ hash_order = ScriptOrder
    /\ AnalyzerIs(NewAnalyzer)
    /\ builder = NewBuilder
    /\ analyzers = {}
    /\ result = NoResult
    /\ server = NewServer

NextRead == CallScanProject

SpecRead == InitRead /\ [][NextRead]_vars

\* ------------------------------------------------- the MCP request loop
\* MCPRecursiveAnalyzerServer (program "server") and MCPServer of
\* proper-mcp-server.py (program "mcp_server") read one JSON line at a time.
Methods == {"initialize", "notifications/initialized", "tools/list",
            "tools/call", "ping"}
\* the lines a client sends: a tools/call of the analyzer server names the
\* tool matlab_recursive_analyze with its arguments, the tools of MCPServer
\* are mocks that keep no state
RequestLines(prog) ==
    {[NoRequest EXCEPT !.method = m] : m \in (Methods \ {"tools/call"}) \cup {BadJson}}
    \cup (IF prog = "server"
          THEN {[method |-> "tools/call", project_path |-> p, entry |-> e] :
                    p \in {ProjectPath, MissingPath}, e \in {"aa.m", UnknownScript}}
          ELSE {[NoRequest EXCEPT !.method = "tools/call"]})

\* handle_request without `if not self.initialized and method != 'initialize'`
ResponseToUngated(initialized, method) ==
    CASE method = "initialize" -> ResultResponse
      [] method = "notifications/initialized" -> NoResponse
      [] method \in {"tools/list", "tools/call"} -> ResultResponse
      [] OTHER -> ErrorResponse(MethodNotFound)
\* handle_request: the response (None for a served notification) to a method
ResponseTo(initialized, method) ==
    CASE method = "initialize" -> ResultResponse
      [] method # "initialize" /\ ~initialized -> ErrorResponse(NotInitialized)
      [] method = "notifications/initialized" -> NoResponse
      [] method \in {"tools/list", "tools/call"} -> ResultResponse
      [] OTHER -> ErrorResponse(MethodNotFound)

\* run_server is at `line = await ... readline`
AwaitingLineAlways(srv) == TRUE
AwaitingLine(srv) == srv.pc = "readline"

\* run_server: readline() and json.loads(); a line that is no JSON is
\* answered with -32700 in the except branch
ReadLine ==
    /\ program \in {"server", "mcp_server"}
    /\ AwaitingLine(server)
    /\ Len(server.input) < MaxRequests
    /\ \E line \in RequestLines(program) :
        server' = IF line.method = BadJson
                  THEN [server EXCEPT !.input = Append(@, line.method),
                                      !.response = [ErrorResponse(ParseError)
                                                      EXCEPT !.line = Len(server.input) + 1],
                                      !.pc = "write"]
                  ELSE [server EXCEPT !.input = Append(@, line.method),
                                      !.request = line,
                                      !.pc = "handle_request"]
    /\ UNCHANGED <<files, edits, program, hash_order, avars, builder, analyzers, result>>

\* run_server: `response = await self.handle_request(request)`, the whole
\* handler with the tool it runs
HandleRequest ==
    /\ program \in {"server", "mcp_server"}
    /\ server.pc = "handle_request"
    /\ LET method == server.request.method
           answer == ResponseTo(server.initialized, method)
           response == IF answer = NoResponse THEN NoResponse
                       ELSE [answer EXCEPT !.line = Len(server.input)]
       IN /\ server' = [server EXCEPT
                          !.initialized = @ \/ method = "initialize",
                          !.request = NoRequest,
                          !.response = response,
                          !.pc = IF response.kind = "none" THEN "readline" ELSE "write"]
          /\ IF method = "tools/call" /\ response.kind = "result" /\ program = "server"
             THEN \E found \in Scans(files) :
                    RunMatlabRecursiveAnalyze(server.request.project_path,
                                              server.request.entry, "cc.m", FALSE, found)
             ELSE UNCHANGED <<avars, analyzers, result>>
    /\ UNCHANGED <<files, edits, program, hash_order, builder>>

\* run_server: output_stream.write(response_line) and flush()
WriteResponse ==
    /\ program \in {"server", "mcp_server"}
    /\ server.pc = "write"
    /\ server' = [server EXCEPT !.output = Append(@, server.response),
                                !.response = NoResponse,
                                !.pc = "readline"]
    /\ UNCHANGED <<files, edits, program, hash_order, avars, builder, analyzers, result>>

\* run_server: `if not line: break`
LoopEnds ==
    /\ program \in {"server", "mcp_server"}
    /\ AwaitingLine(server)
    /\ server' = [server EXCEPT !.pc = "stopped"]
    /\ UNCHANGED <<files, edits, program, hash_order, avars, builder, analyzers, result>>

InitProtocol ==
    /\ files = FirstFiles
    /\ edits = 0
    /\ program \in {"server", "mcp_server"}
    /\ hash_order = ScriptOrder
    /\ AnalyzerIs(NewAnalyzer)
    /\ builder = NewBuilder
    /\ analyzers = {}
    /\ result = NoResult
    /\ server = NewServer

NextProtocol ==
    \/ ReadLine
    \/ HandleRequest
    \/ WriteResponse
    \/ LoopEnds

SpecProtocol == InitProtocol /\ [][NextProtocol]_vars

\* -------------------------------------------- the two recursive traversals
\* One call graph held by an analyzer and by a builder, and each object's
\* traversal of it from cleared chains, as analyze_recursive_calls and
\* build_call_chains start it.
LoopFreeGraphs == {g \in [Scripts -> SUBSET Scripts] : \A s \in Scripts : s \notin g[s]}

\* call_chains = {} ...; self._recursive_analyze(entry_script, [], 0)
CallRecursiveAnalyze ==
    /\ program = "traversal"
    /\ \E entry \in Scripts :
        LET st == RecursiveAnalyze(call_graph, hash_order, InitTraversal, entry, <<>>, 0) IN
        /\ call_chains' = st.chains
        /\ recursion_depth' = st.depth
        /\ visited_count' = st.visited
        /\ result' = [result EXCEPT !.op = "recursive_analyze", !.a1 = entry]
    /\ UNCHANGED <<files, edits, program, hash_order, script_functions, function_scripts,
                   script_calls, call_graph, builder, analyzers, server>>

\* call_chains.clear(); self._recursive_build_chain(entry_script, [entry_script])
CallRecursiveBuildChain ==
    /\ program = "traversal"
    /\ \E entry \in Scripts :
        /\ builder' = [builder EXCEPT !.call_chains =
                          RecursiveBuildChain(builder.call_graph, hash_order, NoChains,
                                              entry, <<entry>>)]
        /\ result' = [result EXCEPT !.op = "recursive_build_chain", !.a2 = entry]
    /\ UNCHANGED <<files, edits, program, hash_order, avars, analyzers, server>>

InitChains ==
    /\ files = FirstFiles
    /\ edits = 0
    /\ program = "traversal"
    /\ hash_order \in Orders
    /\ \E g \in LoopFreeGraphs :
        /\ AnalyzerIs([NewAnalyzer EXCEPT !.call_graph = g])
        /\ builder = [NewBuilder EXCEPT !.call_graph = g]
    /\ analyzers = {}
    /\ result = NoResult
    /\ server = NewServer

NextChains ==
    \/ CallRecursiveAnalyze
    \/ CallRecursiveBuildChain

SpecChains == InitChains /\ [][NextChains]_vars

\* ------------------------------------------------------- graph vocabulary
\* scripts reachable from x along at most k call-graph edges
RECURSIVE ReachWithin(_, _, _)
ReachWithin(cg, x, k) ==
    IF k = 0 THEN {x}
    ELSE LET r == ReachWithin(cg, x, k - 1) IN r \cup UNION {GetSet(cg, y) : y \in r}

Reachable(cg, x, y) == y \in ReachWithin(cg, x, Cardinality(Scripts))

\* breadth-first distance from x to a reachable y
Distance(cg, x, y) ==
    CHOOSE k \in 0..Cardinality(Scripts) :
        /\ y \in ReachWithin(cg, x, k)
        /\ k = 0 \/ y \notin ReachWithin(cg, x, k - 1)

FollowsEdges(cg, p) == \A i \in 1..(Len(p) - 1) : p[i + 1] \in GetSet(cg, p[i])
\* CallPath: a non-empty walk through the call graph that repeats no script
IsCallPath(cg, p) == Len(p) >= 1 /\ NoRepeat(p) /\ FollowsEdges(cg, p)
IsLeaf(cg, s) == GetSet(cg, s) = {}
\* some cycle of the call graph can be reached from x
CycleReachable(cg, x) ==
    \E y \in ReachWithin(cg, x, Cardinality(Scripts)) :
        \E z \in GetSet(cg, y) : Reachable(cg, z, y)

\* ------------------------------------------------------------------ claims
\* C1: _find_paths_to_leaves returns a list of paths, without raising, for
\* every call graph, also when a cycle is reachable from the start script.
C1_PathsToLeavesNeverRaises ==
    result.op = "leaves" => result.status = "ok"

\* C2: analyze_recursive_calls never re-enters the start script: the report
\* gives the start a visit count of 1 and a depth of 0, and for the mutual
\* recursion aa.m <-> bb.m both scripts are visited once, at depths 0 and 1,
\* with exactly one pruned cycle event.
C2_StartVisitedOnce ==
    (result.op = "analyze" /\ result.status = "ok") =>
        /\ result.report.visited_count[result.a1] = 1
        /\ result.report.recursion_depth[result.a1] = 0
        /\ (/\ result.a1 = "aa.m"
            /\ call_graph = [NoGraph EXCEPT !["aa.m"] = {"bb.m"}, !["bb.m"] = {"aa.m"}])
           => /\ result.report.visited_count["bb.m"] = 1
              /\ result.report.recursion_depth["bb.m"] = 1
              /\ result.report.total_scripts = 2
              /\ result.report.cycles = 1

\* C3: every path the descent records for a reached script n begins with the
\* entry script, ends with n, follows call-graph edges and repeats no script.
C3_RecordedPathsAreCallPaths ==
    (result.op = "analyze" /\ result.status = "ok") =>
        \A n \in Scripts :
            LET p == result.report.call_chains[n] IN
            p # <<>> => /\ p[1] = result.a1
                        /\ p[Len(p)] = n
                        /\ IsCallPath(call_graph, p)

\* C5: every path returned by _find_paths_to_leaves(X) starts at X, follows
\* call-graph edges, ends at a script without outgoing edges and contains no
\* script twice.
C5_LeafPathsAreSimplePathsToLeaves ==
    (result.op = "leaves" /\ result.status = "ok") =>
        \A i \in 1..Len(result.paths) :
            LET p == result.paths[i] IN
            /\ p[1] = result.a1
            /\ IsCallPath(call_graph, p)
            /\ IsLeaf(call_graph, p[Len(p)])

C5_Witness ==
    /\ result.op = "leaves" /\ result.status = "ok"
    /\ Len(result.paths) >= 2
    /\ \E i \in 1..Len(result.paths) : Len(result.paths[i]) = 3

\* C6: _find_path_to_script(X, Y) returns None exactly when no sequence of
\* call-graph edges leads from X to Y; a reachable Y gets a non-empty path.
C6_NoneIffUnreachable ==
    result.op = "path" =>
        /\ (result.status = "none") <=> ~Reachable(call_graph, result.a1, result.a2)
        /\ Reachable(call_graph, result.a1, result.a2) => Len(result.path) >= 1

\* None is returned for a target that calls the start, which itself has callees
C6_Witness ==
    /\ result.op = "path" /\ result.status = "none"
    /\ result.a1 \in Scripts /\ result.a2 \in Scripts
    /\ call_graph[result.a1] # {}
    /\ result.a1 \in call_graph[result.a2]

\* the path a shortest-path query returned, <<>> when it returned none
ShortestReturned ==
    IF result.op = "path" /\ result.status = "ok" THEN result.path
    ELSE IF result.op = "allpaths" /\ result.paths # <<>> THEN result.paths[1]
    ELSE <<>>

\* C7: a path returned by the shortest-path query starts at from, ends at to,
\* is a call path, and has breadth-first distance + 1 nodes.
C7_ShortestPathIsShortest ==
    ShortestReturned # <<>> =>
        LET p == ShortestReturned IN
        /\ p[1] = result.a1
        /\ p[Len(p)] = result.a2
        /\ IsCallPath(call_graph, p)
        /\ Len(p) = Distance(call_graph, result.a1, result.a2) + 1

\* a query with two routes of different length, the longer one found first
C7_Witness ==
    /\ result.op = "allpaths"
    /\ Len(result.paths) = 2
    /\ Len(result.paths[1]) = 2 /\ Len(result.paths[2]) = 3
    /\ ShortestReturned = <<result.a1, result.a2>>

\* C8: _find_path_to_script(X, X) returns <<X>> whatever the call graph is.
C8_PathToSelf ==
    (result.op = "path" /\ result.a1 = result.a2) =>
        result.status = "ok" /\ result.path = <<result.a1>>

\* X lies on a cycle
C8_Witness ==
    /\ result.op = "path" /\ result.a1 = result.a2 /\ result.a1 \in Scripts
    /\ result.path = <<result.a1>>
    /\ \E z \in call_graph[result.a1] : Reachable(call_graph, z, result.a1)

\* the graph the analyzer's last scan gives rise to
AnalyzerDerivedGraph ==
    [s \in Scripts |-> {t \in Scripts \ {s} :
        \E n \in GetSet(script_calls, s) : function_scripts[n] = t}]

\* the graph the builder's last scan gives rise to
BuilderDerivedGraph ==
    [s \in Scripts |-> {t \in Scripts \ {s} :
        \E n \in GetSet(builder.scan.sc, s) :
            /\ builder.scan.fs[n] # <<>>
            /\ builder.scan.fs[n][1] = t
            /\ ~(builder.scan.fd[n][s] = "explicit_function")}]

\* C4: after any sequence of scans and call-graph builds, repeated builds
\* without reset included, neither the analyzer's nor the builder's call
\* graph has an edge from a script to itself.
C4_NoSelfEdge ==
    \A s \in Scripts : s \notin call_graph[s] /\ s \notin builder.call_graph[s]

\* a build has processed a call that resolves to the calling script itself
C4_Witness ==
    \/ /\ result.op = "build" /\ result.status = "ok"
       /\ \E s \in Scripts : \E n \in GetSet(builder.scan.sc, s) :
            /\ builder.scan.fs[n] # <<>>
            /\ builder.scan.fs[n][1] = s
            /\ builder.scan.fd[n][s] # "explicit_function"
    \/ /\ result.op = "analyze" /\ result.status = "ok"
       /\ \E s \in Scripts : \E n \in GetSet(script_calls, s) : function_scripts[n] = s

\* C9: a query naming an entry or target script that is absent from the
\* scanned index yields an error result, never a normal result.
C9_UnknownScriptIsAnError ==
    (/\ result.op = "execute_recursive_analyze"
     /\ ProjectPath \in analyzers
     /\ UnknownScript \in {result.a1, result.a2})
    => result.status = "error"

\* C10: after every scan performed by a query the call graph holds exactly
\* the edges derived from that scan; no edge of an earlier scan survives.
C10_GraphIsTheLastScans ==
    /\ (result.op = "analyze" /\ result.status = "ok")
            => call_graph = AnalyzerDerivedGraph
    /\ (result.op = "build" /\ result.status = "ok")
            => builder.call_graph = BuilderDerivedGraph

\* the operations that query the cached analyzer
QueryOps == {"analyze", "path", "allpaths", "leaves"}

\* C11: the cached representation is rebuilt only on an explicit reset: a
\* query on an analyzer that already holds a scan does not scan the project
\* again, so it leaves the scanned definitions and calls as they were.
C11_NoRescanWithoutReset ==
    [][(result'.op \in QueryOps /\ script_functions # EmptyDict)
        => /\ script_functions' = script_functions
           /\ function_scripts' = function_scripts
           /\ script_calls' = script_calls]_vars

\* The call graph the project on disk has: a call of a name leads to the
\* first script, in path order, that declares the name with `function`,
\* else to the script named after it; calls into the caller itself give no edge.
Declarers(n) == {s \in Scripts : n \in files[s].expl}
FilesResolve(n) ==
    IF Declarers(n) # {}
    THEN CHOOSE s \in Declarers(n) : \A t \in Declarers(n) : Rank(s) <= Rank(t)
    ELSE IF n \in StemNames THEN CHOOSE s \in Scripts : Stem[s] = n
    ELSE NoScript
FilesGraph ==
    [s \in Scripts |-> {FilesResolve(n) : n \in files[s].calls} \ {s, NoScript}]

\* the query named the scripts it needs, or needs none
KnownQuery(r) == r.op = "roots" \/ r.a1 \in Scripts

\* C12: reset() leaves every cached map of the analyzer empty, and the first
\* query after a reset scans the project again: the calls it holds, the call
\* graph and the answer come from the files as they are at that time.
C12_ResetThenFreshScan ==
    [][/\ result'.op = "reset" => Analyzer' = NewAnalyzer
       /\ (result.op = "reset" /\ result'.op \in {"analyze", "leaves", "roots"}) =>
            /\ script_calls' = [s \in Scripts |-> files[s].calls]
            /\ call_graph' = IF KnownQuery(result') THEN FilesGraph ELSE NoGraph
            /\ result'.op = "roots" =>
                 Range(result'.path) = Scripts \ UNION {FilesGraph[s] : s \in Scripts}
            /\ (result'.op = "leaves" /\ result'.status = "ok") =>
                 \A i \in 1..Len(result'.paths) :
                    /\ IsCallPath(FilesGraph, result'.paths[i])
                    /\ IsLeaf(FilesGraph, result'.paths[i][Len(result'.paths[i])])
            /\ (result'.op = "analyze" /\ result'.status = "ok") =>
                 result'.report.total_scripts =
                    Cardinality(ReachWithin(FilesGraph, result'.a1, Cardinality(Scripts)))
      ]_vars

\* a leaves query answered from the project as edited: aa.m calls nothing any
\* more and the graph holds the one edge that is left
C12_Witness ==
    /\ result.op = "leaves" /\ result.a1 = "bb.m" /\ result.status = "ok"
    /\ edits > 0 /\ files["aa.m"].calls = {}
    /\ result.paths = <<<<"bb.m", "cc.m">>>>
    /\ call_graph = [NoGraph EXCEPT !["bb.m"] = {"cc.m"}]

\* every name the script calls is one it declares itself with `function`
CallsOnlyOwnFunctions(s) == files[s].calls # {} /\ files[s].calls \subseteq files[s].expl

\* C13: a call of a name the caller itself explicitly defines gives no edge,
\* neither to the caller nor to another script defining the name: a build
\* adds no edge out of a script all of whose calls are of that kind.
C13_OwnDefinitionGivesNoEdge ==
    [][\A s \in Scripts : CallsOnlyOwnFunctions(s) =>
        /\ (result'.op = "analyze" /\ result'.status = "ok" /\ call_graph[s] = {})
                => call_graph'[s] = {}
        /\ (result'.op = "build" /\ result'.status = "ok" /\ builder.call_graph[s] = {})
                => builder'.call_graph[s] = {}
      ]_vars

\* every sequence of scripts that could be a simple path
AllPaths == UNION {[1..n -> Scripts] : n \in 1..Cardinality(Scripts)}
\* the simple paths of the call graph from x to y
SimplePaths(cg, x, y) == {p \in AllPaths : IsCallPath(cg, p) /\ p[1] = x /\ p[Len(p)] = y}
\* the simple paths from x to the leaves, x itself apart
SimplePathsToLeaves(cg, x) ==
    {p \in AllPaths : IsCallPath(cg, p) /\ p[1] = x /\ Len(p) >= 2 /\ IsLeaf(cg, p[Len(p)])}
\* the scripts that are no script's callee
AutoRoots(cg) == Scripts \ UNION {cg[s] : s \in Scripts}
\* the roots an impact query works from
RootsOf(r) == IF r.roots.none THEN AutoRoots(call_graph) ELSE Range(r.roots.list)

\* the impact query answered, for its changed script, with these lists
ImpactAnswered == result.op = "impact" /\ result.status = "ok"
Upstream == result.impact[result.a1].entry_to_changed
Downstream == result.impact[result.a1].changed_to_leaves

\* C14: analyze_impact_for_changes returns, for every changed script, as
\* upstream exactly the simple paths from each root to it and as downstream
\* exactly the paths from it to the leaves, with counts equal to the sizes.
C14_ImpactPathsExact ==
    result.op = "impact" =>
        /\ result.status = "ok"
        /\ NoRepeat(Upstream) /\ NoRepeat(Downstream)
        /\ Range(Upstream) = UNION {SimplePaths(call_graph, r, result.a1) : r \in RootsOf(result)}
        /\ Range(Downstream) = SimplePathsToLeaves(call_graph, result.a1)
        /\ result.impact[result.a1].upstream_path_count = Len(Upstream)
        /\ result.impact[result.a1].downstream_path_count = Len(Downstream)

\* C15: whatever the roots list, explicit or auto-detected, a changed script
\* that is one of the roots gets exactly the one upstream path <<script>>.
C15_ChangedRootHasOnePath ==
    (ImpactAnswered /\ result.a1 \in RootsOf(result)) => Upstream = <<<<result.a1>>>>

\* C16: from a start script from which no cycle is reachable,
\* _find_paths_to_leaves returns exactly the simple paths from the start to
\* the leaves it reaches, each once and each of two scripts or more; none
\* when the start is itself a leaf.
C16_LeafPathsExactWithoutCycle ==
    (result.op = "leaves" /\ ~CycleReachable(call_graph, result.a1)) =>
        /\ result.status = "ok"
        /\ NoRepeat(result.paths)
        /\ Range(result.paths) = SimplePathsToLeaves(call_graph, result.a1)
        /\ IsLeaf(call_graph, result.a1) => result.paths = <<>>

\* two routes from the start to one leaf, both returned
C16_Witness ==
    /\ result.op = "leaves" /\ result.status = "ok"
    /\ ~CycleReachable(call_graph, result.a1)
    /\ Len(result.paths) = 2
    /\ Len(result.paths[1]) # Len(result.paths[2])
    /\ result.paths[1][Len(result.paths[1])] = result.paths[2][Len(result.paths[2])]

\* the scripts the parser lists for a name, and the kind of definition each has
DefiningScripts(n) == builder.scan.fs[n]
KindIn(n, s) == builder.scan.fd[n][s]

\* C17: a name with two or more defining scripts, one of them at least with
\* an explicit function definition, has an explicit definition as its
\* primary one (index 0 of its list), never a script-as-function one.
C17_PrimaryIsExplicit ==
    \A n \in Names :
        (/\ Len(DefiningScripts(n)) >= 2
         /\ \E s \in Range(DefiningScripts(n)) : KindIn(n, s) = "explicit_function")
        => KindIn(n, DefiningScripts(n)[1]) = "explicit_function"

\* bb is declared in cc.m and is also the script bb.m: cc.m comes first
C17_Witness ==
    /\ result.op = "scan"
    /\ DefiningScripts("bb") = <<"cc.m", "bb.m">>
    /\ KindIn("bb", "bb.m") = "script_file"

\* C18: after resolution no script with an explicit definition of a name
\* stands, in the name's list, behind a script whose definition is implicit.
C18_ExplicitBeforeImplicit ==
    \A n \in Names : \A i, j \in 1..Len(DefiningScripts(n)) :
        (/\ i < j
         /\ KindIn(n, DefiningScripts(n)[i]) = "script_file")
        => KindIn(n, DefiningScripts(n)[j]) # "explicit_function"

\* C19: get_function_definition_for_script returns the caller, marked
\* internal, exactly when the caller has an explicit definition of the name;
\* a caller with only the implicit definition gets the primary definition,
\* not marked internal.
C19_InternalIffExplicitInCaller ==
    result.op = "definition" =>
        LET d == result.definition
            n == result.name
            caller == result.a1
        IN /\ d.is_internal_definition <=> KindIn(n, caller) = "explicit_function"
           /\ d.is_internal_definition => d.found /\ d.primary_script = caller
           /\ KindIn(n, caller) = "script_file" =>
                d.found /\ d.primary_script = DefiningScripts(n)[1]

\* the caller's own explicit definition is returned although another
\* script holds the primary one
C19_Witness ==
    /\ result.op = "definition"
    /\ result.definition.is_internal_definition
    /\ result.definition.primary_script = result.a1
    /\ DefiningScripts(result.name)[1] # result.a1

\* the last step of the server was a tool query
ToolOps == {"execute_recursive_analyze", "execute_impact"}
\* the tool query met a failure: a project path at which nothing exists, no
\* changed script, or the error _find_paths_to_leaves raises on a cycle
ToolFailed ==
    \/ result.project_path = MissingPath
    \/ result.op = "execute_impact" /\ result.changed = <<>>
    \/ /\ result.project_path = ProjectPath
       /\ \/ result.op = "execute_recursive_analyze" /\ CycleReachable(call_graph, result.a2)
          \/ result.op = "execute_impact" /\ result.changed # <<>>
                /\ CycleReachable(call_graph, result.changed[1])

\* C20: a failure raised while a tool query executes becomes an error result
\* of the tool method that carries the query's input parameters, and the
\* server keeps running to answer the requests after it.
C20_FailureBecomesErrorResult ==
    result.op \in ToolOps =>
        /\ program = "server"
        /\ result.status \in {"ok", "error"}
        /\ ToolFailed <=> result.status = "error"
        /\ result.project_path \in ProjectPaths
        /\ result.op = "execute_recursive_analyze" =>
                result.a1 \in QueryScripts /\ result.a2 \in QueryScripts
        /\ result.op = "execute_impact" => result.roots \in ServerRootChoices

\* an impact query on a cached analyzer failed inside the analysis
C20_Witness ==
    /\ result.op = "execute_impact" /\ result.status = "error"
    /\ result.project_path = ProjectPath /\ result.changed = <<"aa.m">>
    /\ CycleReachable(call_graph, "aa.m")
    /\ program = "server"

\* C21: a query whose project path is missing or is not a directory gets an
\* error result, and no analyzer is ever created for such a path.
C21_InvalidPathIsRejected ==
    /\ analyzers \subseteq {ProjectPath}
    /\ (result.op \in ToolOps /\ result.project_path \in {MissingPath, FilePath})
            => result.status = "error"

\* the parser holds the outcome of a scan
Scanned == builder.scan.sf # EmptyDict
\* a script without a `function` declaration whose content is not blank
PlainScript(s) == files[s].expl = {} /\ ~files[s].blank

\* C22: for every script with no function declaration and non-blank content
\* a scan records exactly one definition, named after the file stem and of
\* kind script_file, and the script is listed once among the defining
\* scripts of that name and of no other.
C22_PlainScriptHasOneImplicitDefinition ==
    Scanned => \A s \in Scripts : PlainScript(s) =>
        /\ builder.scan.sf[s] = {Stem[s]}
        /\ KindIn(Stem[s], s) = "script_file"
        /\ Cardinality({i \in 1..Len(DefiningScripts(Stem[s])) :
                            DefiningScripts(Stem[s])[i] = s}) = 1
        /\ \A n \in Names \ {Stem[s]} :
                KindIn(n, s) = "none" /\ ~InList(s, DefiningScripts(n))

\* the plain script bb.m is listed for bb behind aa.m, which declares bb
C22_Witness ==
    /\ result.op = "scan"
    /\ PlainScript("bb.m") /\ "bb" \in files["aa.m"].expl
    /\ DefiningScripts("bb") = <<"aa.m", "bb.m">>
    /\ KindIn("bb", "bb.m") = "script_file"

\* C23: during _recursive_analyze the recursion_stack never has more entries
\* than the project has scripts, and never holds the same script twice.
C23_StackBoundedByScripts ==
    (result.op = "analyze" /\ result.status = "ok") =>
        /\ result.report.maxStack <= Cardinality(DOMAIN script_functions)
        /\ ~result.report.stackRepeat

\* the edges out of script a that the calls in its file give when primary(n)
\* is the primary definition of n: one to the primary script of every name
\* that a calls and does not itself declare, a's own script apart
EdgesByPrimary(a, primary(_)) ==
    {b \in Scripts \ {a} : \E n \in files[a].calls \ files[a].expl : primary(n) = b}

\* C24: after one scan and one graph build on a new analyzer or builder, the
\* call graph has the edge A -> B exactly when A # B and A calls a known
\* name that A does not explicitly define and whose primary definition
\* (index 0 of the name's list) is B; no other defining script gets an edge.
C24_EdgeIffPrimaryOfForeignCall ==
    [][/\ (Analyzer = NewAnalyzer /\ result'.op = "analyze" /\ result'.status = "ok") =>
            \A a \in Scripts :
                call_graph'[a] = EdgesByPrimary(a, LAMBDA n : function_scripts'[n])
       /\ (builder = NewBuilder /\ result'.op = "build" /\ result'.status = "ok") =>
            \A a \in Scripts :
                builder'.call_graph[a] = EdgesByPrimary(a, LAMBDA n :
                    IF builder'.scan.fs[n] = <<>> THEN NoScript ELSE builder'.scan.fs[n][1])
      ]_vars

\* C25: in the report of analyze_recursive_calls(start) the visit count of
\* every script is the number of distinct simple paths from start to it in
\* the call graph: 1 for start itself, 0 for a script that is not reached.
C25_VisitsCountSimplePaths ==
    (result.op = "analyze" /\ result.status = "ok") =>
        \A s \in Scripts :
            result.report.visited_count[s] = Cardinality(SimplePaths(call_graph, result.a1, s))

\* SearchPathOrder: the project root first, then the script directories in
\* the order in which the sorted script paths first show them
FirstScriptOf(d) ==
    CHOOSE i \in 1..Len(FileList) :
        Dir[FileList[i]] = d /\ \A j \in 1..(i - 1) : Dir[FileList[j]] # d
DirEarlier(d, e) ==
    \/ d = "." /\ e # "."
    \/ d # "." /\ e # "." /\ FirstScriptOf(d) < FirstScriptOf(e)
\* string order of two script paths
PathBefore(s, t) == RankIn(TreeOrder, s) < RankIn(TreeOrder, t)

\* C26: of the defining scripts handed to _select_by_matlab_path_rules the
\* one chosen is a script of the project root if there is one, else a script
\* whose directory comes earliest in the search-path order; among the
\* scripts of that directory it is the one with the smallest script path.
C26_PrimaryBySearchPath ==
    (result.op = "select" /\ result.scripts # {}) =>
        LET S == result.scripts
            p == result.primary
        IN /\ p \in S
           /\ (\E t \in S : Dir[t] = ".") => Dir[p] = "."
           /\ \A t \in S : ~DirEarlier(Dir[t], Dir[p])
           /\ \A t \in S \ {p} : Dir[t] = Dir[p] => PathBefore(p, t)

\* lib/ff.m is chosen before lib/b/ff.m, the smaller path: lib/aa.m has put
\* lib on the search path before lib/b
C26_Witness ==
    /\ result.op = "select"
    /\ result.scripts = {"lib/b/ff.m", "lib/ff.m"}
    /\ "lib/aa.m" \in DOMAIN files
    /\ result.primary = "lib/ff.m"

\* C27: for the files as they are, every order in which the scan may
\* enumerate and parse them gives every multiply-defined name the same
\* primary definition as the scan the parser holds.
C27_PrimaryIndependentOfScanOrder ==
    Scanned => \A sc \in Scans(files) : \A n \in Names :
        Len(DefiningScripts(n)) > 1 =>
            /\ Range(sc.fs[n]) = Range(DefiningScripts(n))
            /\ sc.fs[n][1] = DefiningScripts(n)[1]

\* another order of the scan lists the scripts of bb differently behind the
\* same primary
C27_Witness ==
    /\ result.op = "scan"
    /\ Len(DefiningScripts("bb")) = 3
    /\ \E sc \in Scans(files) :
            sc.fs["bb"] # DefiningScripts("bb") /\ sc.fs["bb"][1] = DefiningScripts("bb")[1]

\* C28: for the call graph as it is, _find_paths_to_leaves returns the same
\* set of paths, and _find_path_to_script a path of the same number of
\* scripts (or None alike), under every order in which the callee sets may
\* be iterated; only the order of the paths may differ.
C28_PathsIndependentOfSetOrder ==
    /\ result.op = "leaves" => \A ord \in Orders :
            LET r == LeafPaths(call_graph, ord, result.a1, <<>>) IN
            /\ r.err <=> result.status = "RecursionError"
            /\ Range(r.paths) = Range(result.paths)
            /\ Len(r.paths) = Len(result.paths)
    /\ result.op = "path" => \A ord \in Orders :
            LET all_paths == FindAllPathsTo(call_graph, ord, result.a1, result.a2, {}, <<>>) IN
            /\ all_paths = <<>> <=> result.status = "none"
            /\ all_paths # <<>> => Len(MinByLen(all_paths)) = Len(result.path)

\* another order returns the same two leaf paths the other way round
C28_Witness ==
    /\ result.op = "leaves" /\ result.status = "ok"
    /\ Len(result.paths) = 2
    /\ \E ord \in Orders :
            LeafPaths(call_graph, ord, result.a1, <<>>).paths
                = <<result.paths[2], result.paths[1]>>

\* the parser's maps as the scan has them before
\* _establish_matlab_syntax_relationships, for one parse and one set order
BeforeResolution(po, so) == ForceMapAll(ParseAll(EmptyScan, files, po), so)
\* index of script x in list l
IndexIn(l, x) == CHOOSE i \in 1..Len(l) : l[i] = x

\* C29: disambiguation only permutes the list of a multiply-defined name:
\* the chosen primary comes to index 0, every other defining script stays
\* in the list once and in its previous relative order, no list becomes
\* empty, and lists of one script and all other maps are left as they were.
C29_ResolutionOnlyPermutes ==
    Scanned => \A po, so \in Orders :
        LET pre == BeforeResolution(po, so)
            post == EstablishRelationships(pre)
        IN /\ post.sf = pre.sf /\ post.sc = pre.sc /\ post.fd = pre.fd
           /\ \A n \in Names :
                LET old == pre.fs[n]
                    new == post.fs[n]
                IN /\ Len(new) = Len(old) /\ Range(new) = Range(old) /\ NoRepeat(new)
                   /\ Len(old) <= 1 => new = old
                   /\ Len(old) > 1 =>
                        /\ new[1] = DeterminePrimary(n, old, pre.fd)
                        /\ \A i, j \in 2..Len(new) :
                              i < j => IndexIn(old, new[i]) < IndexIn(old, new[j])

\* the primary aa.m was parsed last and is brought to the front; bb.m and
\* cc.m keep their order behind it
C29_Witness ==
    /\ result.op = "scan"
    /\ DefiningScripts("bb") = <<"aa.m", "bb.m", "cc.m">>
    /\ \E po, so \in Orders :
            /\ BeforeResolution(po, so).fs["bb"] = <<"bb.m", "cc.m", "aa.m">>
            /\ EstablishRelationships(BeforeResolution(po, so)) = builder.scan

\* the last scripts of the analysis_to_leaves paths
EndPoints(paths) == {paths[i][Len(paths[i])] : i \in 1..Len(paths)}

\* C30: in the result of analyze_specific_paths_with_details, leaf_nodes
\* holds, the analysis script apart, exactly the end points of the
\* analysis_to_leaves paths, and no script with an outgoing call-graph edge.
C30_LeafNodesAreLeaves ==
    (result.op = "details" /\ result.status = "ok" /\ result.a2 \in Scripts) =>
        /\ result.leaf_nodes \ {result.a2} = EndPoints(result.paths)
        /\ \A s \in result.leaf_nodes : IsLeaf(call_graph, s)

\* C31: whatever build_call_chains / find_path_to_script calls came before
\* on the same builder, find_path_to_script(entry, target) returns a path
\* that starts at entry and ends at target, or None when the call graph has
\* no path from entry to target.
C31_BuilderPathStartsAtEntry ==
    result.op = "builder_path" =>
        IF result.status = "none"
        THEN ~(/\ result.a1 \in Scripts
               /\ result.a2 \in Scripts
               /\ Reachable(builder.call_graph, result.a1, result.a2))
        ELSE /\ result.path[1] = result.a1
             /\ result.path[Len(result.path)] = result.a2

\* C32: an identifier that is the left-hand side of an assignment in a
\* script is not in the script's call set for standing alone on a line, as
\* `name` or as `name;`.
C32_AssignedNameIsNoBareCall ==
    result.op = "extract_calls" =>
        \A i, j \in 1..Len(files) :
            (/\ files[i].form = "assign"
             /\ files[j].form \in {"bare", "bare_semi"}
             /\ files[j].name = files[i].name)
            => files[i].name \notin result.calls

\* a script whose file cannot be read
Unreadable(s) == "unreadable" \in DOMAIN files[s]

\* C33: when a script file cannot be read at all the scan still completes
\* and processes every other script, and the unreadable script is recorded
\* with an empty set of definitions and an empty set of calls.
C33_UnreadableScriptIsEmpty ==
    Scanned =>
        /\ DOMAIN builder.scan.sf = Scripts
        /\ DOMAIN builder.scan.sc = Scripts
        /\ \A s \in Scripts :
              IF Unreadable(s)
              THEN builder.scan.sf[s] = {} /\ builder.scan.sc[s] = {}
              ELSE /\ builder.scan.sc[s] = files[s].calls
                   /\ files[s].expl \subseteq builder.scan.sf[s]

\* ---------------------------------------------------------------- C34
\* the lines whose handling is over, and whether initialize was handled
\* among the first k lines
Handled(srv) == IF srv.pc = "handle_request" THEN Len(srv.input) - 1 ELSE Len(srv.input)
InitializeAmong(srv, k) == \E j \in 1..k : srv.input[j] = "initialize"
\* the responses to line i: the ones written and the one about to be written
Answers(srv, i) ==
    {srv.output[j] : j \in {k \in 1..Len(srv.output) : srv.output[k].line = i}}
    \cup (IF srv.response.kind # "none" /\ srv.response.line = i THEN {srv.response} ELSE {})

\* C34: the server executes the queries strictly one at a time. A line is
\* read only when no request is in hand and the response to the previous one
\* has been written, and the cached analyzer and the set of cached projects
\* change only in the step that handles the one tools/call request in hand,
\* which is over when the step ends.
C34_OneQueryAtATime ==
    [][/\ Len(server'.input) > Len(server.input)
          => /\ server.request = NoRequest
             /\ server.response = NoResponse
             /\ \A i \in 1..Len(server.input) :
                   \/ Answers(server, i) # {}
                   \/ /\ server.input[i] = "notifications/initialized"
                      /\ InitializeAmong(server, i - 1)
       /\ (<<avars, analyzers, result>>' # <<avars, analyzers, result>>)
          => /\ server.pc = "handle_request"
             /\ server.request.method = "tools/call"
             /\ server'.request = NoRequest
             /\ server'.pc = "write"]_vars

\* two tools/call requests were read, ran and were answered one after the other
C34_TwoQueriesServed ==
    /\ program = "server"
    /\ analyzers # {}
    /\ \E i, j \in 1..Len(server.output) :
        /\ i < j
        /\ server.output[i].line < server.output[j].line
        /\ server.output[i].kind = "result"
        /\ server.output[j].kind = "result"
        /\ server.input[server.output[i].line] = "tools/call"
        /\ server.input[server.output[j].line] = "tools/call"

\* ---------------------------------------------------------------- C35
\* C35: notifications/initialized never produces a response, whether it
\* arrives before or after initialize: no response written or about to be
\* written answers a notifications/initialized line.
C35_NotificationHasNoResponse ==
    \A i \in 1..Len(server.input) :
        server.input[i] = "notifications/initialized" => Answers(server, i) = {}

\* ---------------------------------------------------------------- C36
\* what holds in every state of an initialize-gated server
GatedByInitialize(srv) ==
    /\ srv.initialized = InitializeAmong(srv, Handled(srv))
    /\ \A i \in 1..Handled(srv) :
        /\ srv.input[i] \in {"tools/list", "tools/call"}
           /\ (\E r \in Answers(srv, i) : r.kind = "result")
           => InitializeAmong(srv, i - 1)
        /\ srv.input[i] \notin {"initialize", BadJson} /\ ~InitializeAmong(srv, i - 1)
           => /\ Answers(srv, i) # {}
              /\ \A r \in Answers(srv, i) : r.kind = "error" /\ r.code = NotInitialized

\* C36: in both servers tools/list and tools/call are served only if
\* initialize was handled earlier in the run; until then every request other
\* than initialize is answered with error -32002, no tool runs and no
\* analyzer is created; and the initialized flag never returns to false.
C36_ToolsOnlyAfterInitialize ==
    /\ [](/\ GatedByInitialize(server)
          /\ ~server.initialized
             => analyzers = {} /\ AnalyzerIs(NewAnalyzer) /\ result = NoResult)
    /\ [][server.initialized => server'.initialized]_vars

\* a request was refused with -32002, initialize was handled, and then a
\* tools/call ran its tool and was answered
C36_RefusedThenServed ==
    /\ program = "server"
    /\ server.initialized
    /\ analyzers # {}
    /\ result.op = "execute_recursive_analyze"
    /\ \E i, j \in 1..Len(server.output) :
        /\ i < j
        /\ server.output[i].code = NotInitialized
        /\ server.input[server.output[i].line] = "tools/list"
        /\ server.output[j].kind = "result"
        /\ server.input[server.output[j].line] = "tools/call"

\* ---------------------------------------------------------------- C37
\* C37: after every scan and after every reset the two name indexes are
\* inverses of each other: n is in script_functions[S] exactly if S occurs in
\* function_scripts[n], no script occurs twice in the list of a name, and
\* every scanned script is listed under its stem. The analyzer keeps of each
\* list the one script it resolves the name to, and a reset empties both of
\* its indexes.
C37_NameIndexesAreInverses ==
    /\ \A n \in Names :
        /\ \A i, j \in 1..Len(builder.scan.fs[n]) :
              builder.scan.fs[n][i] = builder.scan.fs[n][j] => i = j
        /\ \A s \in Scripts :
              n \in GetSet(builder.scan.sf, s) <=> InList(s, builder.scan.fs[n])
        /\ function_scripts[n] # NoScript
              => n \in GetSet(script_functions, function_scripts[n])
    /\ \A s \in DOMAIN builder.scan.sf :
          Stem[s] \in builder.scan.sf[s] /\ InList(s, builder.scan.fs[Stem[s]])
    /\ \A s \in DOMAIN script_functions :
          /\ Stem[s] \in script_functions[s]
          /\ \A n \in script_functions[s] : function_scripts[n] # NoScript
    /\ result.op = "reset"
          => script_functions = EmptyDict /\ \A n \in Names : function_scripts[n] = NoScript

\* a scan listed one name under two scripts and force-mapped the stem of a
\* script that declares functions of other names only
C37_TwoDefinitionsAndForcedStem ==
    /\ program = "builder"
    /\ \E n \in Names : Len(builder.scan.fs[n]) >= 2
    /\ \E s \in DOMAIN builder.scan.sf :
        /\ files[s].expl # {}
        /\ Stem[s] \notin files[s].expl
        /\ builder.scan.sf[s] = files[s].expl \cup {Stem[s]}

C39_SameChains ==
    (/\ result.a1 # NoScript
     /\ result.a1 = result.a2
     /\ call_graph = builder.call_graph)
    => call_chains = builder.call_chains

====
